---- MODULE Spec2Model ----
(***************************************************************************)
(* Template selection and formula evaluation of src/lib/document-generator *)
(* (evaluateCondition, evaluateRules, selectTemplates, evaluateFormula,    *)
(* evaluateMathExpression, computeVariablesFromResponses).                 *)
(*                                                                         *)
(* Strings are sequences of one-character strings, so that toLowerCase,    *)
(* parseFloat, includes, split and trim are computed, not assumed.         *)
(* Numbers are exact rationals in sign-magnitude form with the IEEE        *)
(* special values (signed zero, +-Infinity, NaN); the rounding of binary   *)
(* floating point is not modelled.                                         *)
(***************************************************************************)
EXTENDS Integers, Sequences, FiniteSets, TLC

VARIABLES responses, condCall, templates, selectCall, rulesCall, formulaCall,
          orderCall, caseCall, transformCall, personsCall, downloadCall,
          dateCall, stepsCall, store, form

vars == <<responses, condCall, templates, selectCall, rulesCall, formulaCall,
          orderCall, caseCall, transformCall, personsCall, downloadCall,
          dateCall, stepsCall, store, form>>

\* the calls of the functions outside the selection and formula code
laterCalls == <<orderCall, caseCall, transformCall, personsCall, downloadCall>>

\* the calls of the date functions and of the single steps of the variable
\* transformation, the survey store of the server and the survey form
furtherCalls == <<dateCall, stepsCall, store, form>>

(***************************************************************************)
(* Bounds of the model.                                                    *)
(***************************************************************************)
\* longest answer string enumerated exhaustively for evaluateCondition
MaxStrLen == 3
\* most rules in a template
MaxRules == 3
\* most variable occurrences in a formula
MaxOperands == 3

(***************************************************************************)
(* Numbers: JavaScript Number, as an exact rational or a special value.    *)
(***************************************************************************)
RECURSIVE GCD(_, _)
GCD(a, b) == IF b = 0 THEN a ELSE GCD(b, a % b)

NaN == [k |-> "nan", neg |-> FALSE, n |-> 0, d |-> 1]

Inf(neg) == [k |-> "inf", neg |-> neg, n |-> 0, d |-> 1]

Fin(neg, n, d) ==
    LET g == GCD(n, d)
    IN  IF n = 0 THEN [k |-> "fin", neg |-> neg, n |-> 0, d |-> 1]
        ELSE [k |-> "fin", neg |-> neg, n |-> n \div g, d |-> d \div g]

Nat2Num(n) == Fin(FALSE, n, 1)

isNaN(x) == x.k = "nan"

isFinite(x) == x.k = "fin"

IsZero(x) == x.k = "fin" /\ x.n = 0

\* signed numerator of a finite number
SNum(x) == IF x.neg THEN 0 - x.n ELSE x.n

NumNeg(x) == IF x.k = "nan" THEN NaN ELSE [x EXCEPT !.neg = ~x.neg]

\* a + b
NumAdd(a, b) ==
    IF a.k = "nan" \/ b.k = "nan" THEN NaN
    ELSE IF a.k = "inf" /\ b.k = "inf"
         THEN IF a.neg = b.neg THEN a ELSE NaN
    ELSE IF a.k = "inf" THEN a
    ELSE IF b.k = "inf" THEN b
    ELSE LET r == SNum(a) * b.d + SNum(b) * a.d
         IN  IF r = 0 THEN Fin(a.neg /\ b.neg, 0, 1)
             ELSE IF r < 0 THEN Fin(TRUE, 0 - r, a.d * b.d)
             ELSE Fin(FALSE, r, a.d * b.d)

\* a - b
NumSub(a, b) == NumAdd(a, NumNeg(b))

\* a * b
NumMul(a, b) ==
    IF a.k = "nan" \/ b.k = "nan" THEN NaN
    ELSE IF (a.k = "inf" /\ IsZero(b)) \/ (b.k = "inf" /\ IsZero(a)) THEN NaN
    ELSE IF a.k = "inf" \/ b.k = "inf" THEN Inf(a.neg # b.neg)
    ELSE Fin(a.neg # b.neg, a.n * b.n, a.d * b.d)

\* a / b
NumDiv(a, b) ==
    IF a.k = "nan" \/ b.k = "nan" THEN NaN
    ELSE IF a.k = "inf" /\ b.k = "inf" THEN NaN
    ELSE IF a.k = "inf" THEN Inf(a.neg # b.neg)
    ELSE IF b.k = "inf" THEN Fin(a.neg # b.neg, 0, 1)
    ELSE IF b.n = 0 THEN (IF a.n = 0 THEN NaN ELSE Inf(a.neg # b.neg))
    ELSE Fin(a.neg # b.neg, a.n * b.d, a.d * b.n)

\* a === b on numbers (NaN equals nothing, -0 equals +0)
NumEq(a, b) ==
    /\ a.k # "nan" /\ b.k # "nan"
    /\ \/ a.k = "inf" /\ b.k = "inf" /\ a.neg = b.neg
       \/ a.k = "fin" /\ b.k = "fin" /\ SNum(a) * b.d = SNum(b) * a.d

\* a < b on numbers (false when either is NaN)
NumLt(a, b) ==
    /\ a.k # "nan" /\ b.k # "nan"
    /\ \/ a.k = "fin" /\ b.k = "fin" /\ SNum(a) * b.d < SNum(b) * a.d
       \/ a.k = "inf" /\ a.neg /\ ~(b.k = "inf" /\ b.neg)
       \/ b.k = "inf" /\ ~b.neg /\ ~(a.k = "inf" /\ ~a.neg)

NumGt(a, b) == NumLt(b, a)

NumLe(a, b) == NumLt(a, b) \/ NumEq(a, b)

NumGe(a, b) == NumLt(b, a) \/ NumEq(a, b)

(***************************************************************************)
(* Strings: sequences of characters.                                       *)
(***************************************************************************)
Digits == {"0", "1", "2", "3", "4", "5", "6", "7", "8", "9"}

DigitVal(c) ==
    CASE c = "0" -> 0 [] c = "1" -> 1 [] c = "2" -> 2 [] c = "3" -> 3
      [] c = "4" -> 4 [] c = "5" -> 5 [] c = "6" -> 6 [] c = "7" -> 7
      [] c = "8" -> 8 [] c = "9" -> 9

DigitChar(n) ==
    CASE n = 0 -> "0" [] n = 1 -> "1" [] n = 2 -> "2" [] n = 3 -> "3"
      [] n = 4 -> "4" [] n = 5 -> "5" [] n = 6 -> "6" [] n = 7 -> "7"
      [] n = 8 -> "8" [] n = 9 -> "9"

WhiteSpace == {" "}

\* the string a Record item of a repeating group converts to
ObjectObject == "[object Object]"

UpperLetters ==
    <<"A", "B", "C", "D", "E", "F", "G", "H", "I", "J", "K", "L", "M",
      "N", "O", "P", "Q", "R", "S", "T", "U", "V", "W", "X", "Y", "Z">>

LowerLetters ==
    <<"a", "b", "c", "d", "e", "f", "g", "h", "i", "j", "k", "l", "m",
      "n", "o", "p", "q", "r", "s", "t", "u", "v", "w", "x", "y", "z">>

\* String.prototype.toLowerCase on one character
LowerChar(c) ==
    IF \E i \in 1..26 : UpperLetters[i] = c
    THEN LowerLetters[CHOOSE i \in 1..26 : UpperLetters[i] = c]
    ELSE IF c = ObjectObject THEN "[object object]"
    ELSE c

\* String.prototype.toUpperCase on one character
UpperChar(c) ==
    IF \E i \in 1..26 : LowerLetters[i] = c
    THEN UpperLetters[CHOOSE i \in 1..26 : LowerLetters[i] = c]
    ELSE c

toLowerCase(s) == [i \in 1..Len(s) |-> LowerChar(s[i])]

toUpperCase(s) == [i \in 1..Len(s) |-> UpperChar(s[i])]

\* String.prototype.includes
includes(s, sub) ==
    \E i \in 0..(Len(s) - Len(sub)) : SubSeq(s, i + 1, i + Len(sub)) = sub

\* String.prototype.trim
RECURSIVE trim(_)
trim(s) ==
    IF s = <<>> THEN s
    ELSE IF s[1] \in WhiteSpace THEN trim(Tail(s))
    ELSE IF s[Len(s)] \in WhiteSpace THEN trim(SubSeq(s, 1, Len(s) - 1))
    ELSE s

\* String.prototype.split(sep) for a one-character separator
RECURSIVE split(_, _)
split(s, sep) ==
    IF \E i \in 1..Len(s) : s[i] = sep
    THEN LET i == CHOOSE j \in 1..Len(s) :
                    s[j] = sep /\ \A m \in 1..(j - 1) : s[m] # sep
         IN  <<SubSeq(s, 1, i - 1)>> \o split(SubSeq(s, i + 1, Len(s)), sep)
    ELSE <<s>>

\* Array.prototype.join(',') on an array of strings
RECURSIVE join(_)
join(a) ==
    IF a = <<>> THEN <<>>
    ELSE IF Len(a) = 1 THEN a[1]
    ELSE a[1] \o <<",">> \o join(Tail(a))

\* String(n) for a natural number
RECURSIVE NatToStr(_)
NatToStr(n) ==
    IF n < 10 THEN <<DigitChar(n)>>
    ELSE NatToStr(n \div 10) \o <<DigitChar(n % 10)>>

\* length of the run of digits of s that starts at position i
RECURSIVE DigitRun(_, _)
DigitRun(s, i) ==
    IF i <= Len(s) /\ s[i] \in Digits THEN 1 + DigitRun(s, i + 1) ELSE 0

\* value of the digits s[i .. i+len-1], read as a decimal numeral
RECURSIVE DigitsValue(_, _, _)
DigitsValue(s, i, len) ==
    IF len = 0 THEN 0
    ELSE DigitsValue(s, i, len - 1) * 10 + DigitVal(s[i + len - 1])

RECURSIVE Pow10(_)
Pow10(e) == IF e = 0 THEN 1 ELSE 10 * Pow10(e - 1)

\* parseFloat: skips leading white space, reads an optional sign and the
\* longest decimal numeral (digits, optional fraction) that prefixes the
\* rest; NaN when there is none.  The alphabet of the model holds neither
\* an exponent letter nor the word Infinity.
parseFloat(str) ==
    LET s == IF str = <<>> THEN str
             ELSE LET lead == CHOOSE j \in 0..Len(str) :
                                /\ \A m \in 1..j : str[m] \in WhiteSpace
                                /\ (j = Len(str) \/ str[j + 1] \notin WhiteSpace)
                  IN  SubSeq(str, lead + 1, Len(str))
        signed == s # <<>> /\ s[1] \in {"+", "-"}
        neg == signed /\ s[1] = "-"
        p == IF signed THEN 2 ELSE 1
        il == DigitRun(s, p)
        hasDot == p + il <= Len(s) /\ s[p + il] = "."
        fl == IF hasDot THEN DigitRun(s, p + il + 1) ELSE 0
    IN  IF il + fl = 0 THEN NaN
        ELSE Fin(neg,
                 DigitsValue(s, p, il) * Pow10(fl) + DigitsValue(s, p + il + 1, fl),
                 Pow10(fl))

(***************************************************************************)
(* Survey responses.  A value is a string, an array of strings, an array   *)
(* of records (a repeating group), a number (computed table only), null,   *)
(* or undefined.                                                           *)
(***************************************************************************)
VUndef == [t |-> "undefined", s |-> <<>>, n |-> 0, a |-> <<>>, g |-> <<>>]

VNull == [t |-> "null", s |-> <<>>, n |-> 0, a |-> <<>>, g |-> <<>>]

VStr(s) == [t |-> "string", s |-> s, n |-> 0, a |-> <<>>, g |-> <<>>]

VNum(n) == [t |-> "number", s |-> <<>>, n |-> n, a |-> <<>>, g |-> <<>>]

VArr(a) == [t |-> "array", s |-> <<>>, n |-> 0, a |-> a, g |-> <<>>]

VGroup(g) == [t |-> "group", s |-> <<>>, n |-> 0, a |-> <<>>, g |-> g]

\* one SurveyResponse
Response(q, v) == [questionId |-> q, value |-> v]

\* responses.find(r => r.questionId === q)?.value
FindValue(rs, q) ==
    IF \E i \in 1..Len(rs) : rs[i].questionId = q
    THEN LET i == CHOOSE j \in 1..Len(rs) :
                    rs[j].questionId = q /\ \A m \in 1..(j - 1) : rs[m].questionId # q
         IN  rs[i].value
    ELSE VUndef

\* Array.isArray(v) ? v.join(',') : String(v)
ValueToString(v) ==
    CASE v.t = "string" -> v.s
      [] v.t = "number" -> NatToStr(v.n)
      [] v.t = "array" -> join(v.a)
      [] v.t = "group" -> join([i \in 1..Len(v.g) |-> <<ObjectObject>>])
      [] OTHER -> <<>>

\* baseName.charAt(0).toUpperCase() + baseName.slice(1), on the question ids
\* of the model
capitalizedName(baseName) ==
    CASE baseName = "founders" -> "Founders"
      [] baseName = "directors" -> "Directors"
      [] baseName = "state" -> "State"
      [] baseName = "ref" -> "Ref"
      [] OTHER -> baseName

\* item['type']?.toLowerCase() === 'corporation'
IsCorporationItem(item) ==
    item.hasType /\ toLowerCase(item.type) =
        <<"c", "o", "r", "p", "o", "r", "a", "t", "i", "o", "n">>

\* the entries one response adds to the computed table
ComputedOfResponse(r) ==
    LET v == r.value
        baseName == r.questionId
        len == Len(v.g)
        flag(b) == IF b THEN VStr(<<"t", "r", "u", "e">>) ELSE VStr(<<>>)
        nCorp == Cardinality({i \in 1..len : IsCorporationItem(v.g[i])})
        base == (baseName \o "Count") :> VNum(len)
                @@ ("hasMultiple" \o capitalizedName(baseName)) :> flag(len >= 2)
                @@ ("hasSingle" \o capitalizedName(baseName)) :> flag(len = 1)
        fnd == "individualFoundersCount" :> VNum(len - nCorp)
               @@ "corporationFoundersCount" :> VNum(nCorp)
               @@ "hasIndividualFounder" :> flag(len - nCorp >= 1)
               @@ "hasCorporationFounder" :> flag(nCorp >= 1)
    IN  IF v.t = "group" /\ len > 0
        THEN IF baseName = "founders" THEN fnd @@ base ELSE base
        ELSE <<>>

\* computeVariablesFromResponses: later responses overwrite earlier entries
RECURSIVE computeVariablesFromResponses(_)
computeVariablesFromResponses(rs) ==
    IF rs = <<>> THEN <<>>
    ELSE ComputedOfResponse(rs[Len(rs)])
         @@ computeVariablesFromResponses(SubSeq(rs, 1, Len(rs) - 1))

\* the optional computedVariables argument: absent, or a table
NoTable == [present |-> FALSE, tbl |-> <<>>]

Table(tbl) == [present |-> TRUE, tbl |-> tbl]

\* computedVariables[key]
Lookup(tbl, key) == IF key \in DOMAIN tbl THEN tbl[key] ELSE VUndef

(***************************************************************************)
(* evaluateCondition                                                       *)
(***************************************************************************)
Operators == {"==", "!=", "contains", "not_contains", "in", ">", ">=", "<", "<="}

\* the actual value a condition is about (first block of evaluateCondition)
ActualValue(condition, rs, computedVariables) ==
    IF condition.sourceType = "computed" /\ computedVariables.present
    THEN Lookup(computedVariables.tbl, condition.questionId)
    ELSE FindValue(rs, condition.questionId)

\* a slip in the == / != cases: the strings compared as they are
EqualValues_CaseSensitive(valueStr, conditionValue) ==
    LET numValue == parseFloat(valueStr)
        numCondition == parseFloat(conditionValue)
    IN  IF ~isNaN(numValue) /\ ~isNaN(numCondition)
        THEN NumEq(numValue, numCondition)
        ELSE valueStr = conditionValue

\* case '==' (and, negated, case '!='): numeric when both sides parse,
\* lower-cased strings otherwise
EqualValues(valueStr, conditionValue) ==
    LET numValue == parseFloat(valueStr)
        numCondition == parseFloat(conditionValue)
    IN  IF ~isNaN(numValue) /\ ~isNaN(numCondition)
        THEN NumEq(numValue, numCondition)
        ELSE toLowerCase(valueStr) = toLowerCase(conditionValue)

\* a slip in the ordering cases: an unparsable side counted as 0
OrderNumbers_NaNAsZero(operator, numVal, numCond) ==
    LET zeroIfNaN(x) == IF isNaN(x) THEN Nat2Num(0) ELSE x
    IN  CASE operator = ">" -> NumGt(zeroIfNaN(numVal), zeroIfNaN(numCond))
          [] operator = ">=" -> NumGe(zeroIfNaN(numVal), zeroIfNaN(numCond))
          [] operator = "<" -> NumLt(zeroIfNaN(numVal), zeroIfNaN(numCond))
          [] operator = "<=" -> NumLe(zeroIfNaN(numVal), zeroIfNaN(numCond))

\* !isNaN(numVal) && !isNaN(numCond) && numVal <op> numCond
OrderNumbers(operator, numVal, numCond) ==
    /\ ~isNaN(numVal) /\ ~isNaN(numCond)
    /\ CASE operator = ">" -> NumGt(numVal, numCond)
         [] operator = ">=" -> NumGe(numVal, numCond)
         [] operator = "<" -> NumLt(numVal, numCond)
         [] operator = "<=" -> NumLe(numVal, numCond)

\* cases '>', '>=', '<', '<=': both sides through parseFloat
OrderValues(operator, valueStr, conditionValue) ==
    OrderNumbers(operator, parseFloat(valueStr), parseFloat(conditionValue))

\* a slip in case '!=': the lower-cased strings compared without the numeric
\* attempt
CompareStrings_UnequalAsStrings(operator, valueStr, conditionValue) ==
    CASE operator = "==" -> EqualValues(valueStr, conditionValue)
      [] operator = "!=" -> toLowerCase(valueStr) # toLowerCase(conditionValue)
      [] operator = "contains" ->
          includes(toLowerCase(valueStr), toLowerCase(conditionValue))
      [] operator = "not_contains" ->
          ~includes(toLowerCase(valueStr), toLowerCase(conditionValue))
      [] operator = "in" ->
          LET parts == split(conditionValue, ",")
              allowedValues == [i \in 1..Len(parts) |-> toLowerCase(trim(parts[i]))]
          IN  \E i \in 1..Len(allowedValues) :
                  allowedValues[i] = toLowerCase(valueStr)
      [] operator \in {">", ">=", "<", "<="} ->
          OrderValues(operator, valueStr, conditionValue)
      [] OTHER -> FALSE

\* the switch over the operator, on the two strings
CompareStrings(operator, valueStr, conditionValue) ==
    CASE operator = "==" -> EqualValues(valueStr, conditionValue)
      [] operator = "!=" -> ~EqualValues(valueStr, conditionValue)
      [] operator = "contains" ->
          includes(toLowerCase(valueStr), toLowerCase(conditionValue))
      [] operator = "not_contains" ->
          ~includes(toLowerCase(valueStr), toLowerCase(conditionValue))
      [] operator = "in" ->
          LET parts == split(conditionValue, ",")
              allowedValues == [i \in 1..Len(parts) |-> toLowerCase(trim(parts[i]))]
          IN  \E i \in 1..Len(allowedValues) :
                  allowedValues[i] = toLowerCase(valueStr)
      [] operator \in {">", ">=", "<", "<="} ->
          OrderValues(operator, valueStr, conditionValue)
      [] OTHER -> FALSE

\* a slip in the missing-value branch: false for every operator
MissingResult_AlwaysFalse(operator) == FALSE

\* the result when the actual value (or the referenced operand) is missing
MissingResult(operator) == operator = "!="

evaluateCondition(condition, rs, computedVariables) ==
    LET actualValue == ActualValue(condition, rs, computedVariables)
        valueStr == ValueToString(actualValue)
        byQuestion == condition.valueType = "question" /\ condition.valueQuestionId # ""
        refValue == FindValue(rs, condition.valueQuestionId)
    IN  IF actualValue.t \in {"undefined", "null"}
        THEN MissingResult(condition.operator)
        ELSE IF byQuestion /\ refValue.t \in {"undefined", "null"}
        THEN MissingResult(condition.operator)
        ELSE CompareStrings(condition.operator, valueStr,
                            IF byQuestion THEN ValueToString(refValue)
                            ELSE condition.value)

(***************************************************************************)
(* evaluateRules and selectTemplates                                       *)
(***************************************************************************)
\* the score thresholds of selectTemplates
One == Nat2Num(1)

Half == Fin(FALSE, 1, 2)

\* [...rules].sort((a, b) => a.priority - b.priority), a stable sort
RECURSIVE SortByPriority(_)
SortByPriority(rules) ==
    IF rules = <<>> THEN <<>>
    ELSE LET front == SortByPriority(SubSeq(rules, 1, Len(rules) - 1))
             x == rules[Len(rules)]
             k == Cardinality({i \in 1..Len(front) : front[i].priority <= x.priority})
         IN  SubSeq(front, 1, k) \o <<x>> \o SubSeq(front, k + 1, Len(front))

\* some (OR) or every (AND, the default) of the condition results
Combined(logicalOperator, conditionResults) ==
    IF logicalOperator = "OR"
    THEN \E i \in 1..Len(conditionResults) : conditionResults[i]
    ELSE \A i \in 1..Len(conditionResults) : conditionResults[i]

\* rule.conditions.some(...) for OR, rule.conditions.every(...) otherwise,
\* over the results of evaluateCondition on each condition
ConditionsMet(rule, rs, computedVariables) ==
    Combined(rule.logicalOperator,
             [i \in 1..Len(rule.conditions) |->
                 evaluateCondition(rule.conditions[i], rs, computedVariables)])

\* a slip in the loop: a rule without conditions counted as matched
RECURSIVE CountMatched_EmptyMatches(_, _, _)
CountMatched_EmptyMatches(sortedRules, rs, computedVariables) ==
    IF sortedRules = <<>> THEN 0
    ELSE LET rule == Head(sortedRules)
             rest == CountMatched_EmptyMatches(Tail(sortedRules), rs, computedVariables)
         IN  IF ConditionsMet(rule, rs, computedVariables) THEN rest + 1 ELSE rest

\* a slip in the loop: it stops at the first rule whose conditions fail
RECURSIVE CountMatched_StopAtFirstMiss(_, _, _)
CountMatched_StopAtFirstMiss(sortedRules, rs, computedVariables) ==
    IF sortedRules = <<>> THEN 0
    ELSE LET rule == Head(sortedRules)
         IN  IF Len(rule.conditions) = 0
             THEN CountMatched_StopAtFirstMiss(Tail(sortedRules), rs, computedVariables)
             ELSE IF ConditionsMet(rule, rs, computedVariables)
             THEN CountMatched_StopAtFirstMiss(Tail(sortedRules), rs,
                                               computedVariables) + 1
             ELSE 0

\* the loop over sortedRules: the number of matched rules
RECURSIVE CountMatched(_, _, _)
CountMatched(sortedRules, rs, computedVariables) ==
    IF sortedRules = <<>> THEN 0
    ELSE LET rule == Head(sortedRules)
             rest == CountMatched(Tail(sortedRules), rs, computedVariables)
         IN  IF Len(rule.conditions) = 0 THEN rest
             ELSE IF ConditionsMet(rule, rs, computedVariables) THEN rest + 1
             ELSE rest

\* a slip in the order of the checks: manual-only looked for first
RuleOverride_ManualFirst(rules) ==
    IF \E i \in 1..Len(rules) : rules[i].isManualOnly THEN "manual"
    ELSE IF \E i \in 1..Len(rules) : rules[i].isAlwaysInclude THEN "always"
    ELSE "none"

\* a slip: the manual-only check left out
RuleOverride_NoManual(rules) ==
    IF \E i \in 1..Len(rules) : rules[i].isAlwaysInclude THEN "always" ELSE "none"

\* the two short-circuits: rules.find(r => r.isAlwaysInclude), then
\* rules.find(r => r.isManualOnly)
RuleOverride(rules) ==
    IF \E i \in 1..Len(rules) : rules[i].isAlwaysInclude THEN "always"
    ELSE IF \E i \in 1..Len(rules) : rules[i].isManualOnly THEN "manual"
    ELSE "none"

Evaluation(id, score, matched, total, always, manual) ==
    [templateId |-> id, score |-> score, matchedRules |-> matched,
     totalRules |-> total, isAlwaysInclude |-> always, isManualOnly |-> manual]

\* the result after the loop: score = matchedRules / totalRules, or 0
Scored(id, matchedRules, totalRules) ==
    Evaluation(id,
               IF totalRules > 0
               THEN NumDiv(Nat2Num(matchedRules), Nat2Num(totalRules))
               ELSE Nat2Num(0),
               matchedRules, totalRules, FALSE, FALSE)

evaluateRules(template, rs, computedVariables) ==
    LET rules == template.rules
        rulesWithConditions == SelectSeq(rules, LAMBDA r : Len(r.conditions) > 0)
    IN  IF Len(rules) = 0
        THEN Evaluation(template.id, Nat2Num(0), 0, 0, FALSE, FALSE)
        ELSE IF RuleOverride(rules) = "always"
        THEN Evaluation(template.id, One, Len(rules), Len(rules), TRUE, FALSE)
        ELSE IF RuleOverride(rules) = "manual"
        THEN Evaluation(template.id, Nat2Num(0), 0, Len(rules), FALSE, TRUE)
        ELSE Scored(template.id,
                    CountMatched(SortByPriority(rules), rs, computedVariables),
                    Len(rulesWithConditions))

\* a slip in the threshold: >= 0.5 in place of > 0.5
Bucket_HalfSuggested(evaluation) ==
    IF evaluation.isAlwaysInclude THEN "required"
    ELSE IF evaluation.isManualOnly THEN "optional"
    ELSE IF evaluation.totalRules = 0 THEN "optional"
    ELSE IF NumGe(evaluation.score, One) THEN "required"
    ELSE IF NumGe(evaluation.score, Half) THEN "suggested"
    ELSE "optional"

\* the bucket selectTemplates pushes an active template to
Bucket(evaluation) ==
    IF evaluation.isAlwaysInclude THEN "required"
    ELSE IF evaluation.isManualOnly THEN "optional"
    ELSE IF evaluation.totalRules = 0 THEN "optional"
    ELSE IF NumGe(evaluation.score, One) THEN "required"
    ELSE IF NumGt(evaluation.score, Half) THEN "suggested"
    ELSE "optional"

\* rank of a character in the collation of localeCompare
CharRank(c) ==
    CASE c = "A" -> 1 [] c = "B" -> 2 [] c = "C" -> 3 [] OTHER -> 4

\* a.localeCompare(b) <= 0
RECURSIVE LocaleLe(_, _)
LocaleLe(a, b) ==
    IF a = <<>> THEN TRUE
    ELSE IF b = <<>> THEN FALSE
    ELSE IF CharRank(a[1]) # CharRank(b[1]) THEN CharRank(a[1]) < CharRank(b[1])
    ELSE LocaleLe(Tail(a), Tail(b))

\* a.displayName || a.name
SortName(t) == IF t.displayName # <<>> THEN t.displayName ELSE t.name

\* list.sort(sortByName), a stable sort
RECURSIVE SortByName(_)
SortByName(list) ==
    IF list = <<>> THEN <<>>
    ELSE LET front == SortByName(SubSeq(list, 1, Len(list) - 1))
             x == list[Len(list)]
             k == Cardinality({i \in 1..Len(front) :
                                  LocaleLe(SortName(front[i]), SortName(x))})
         IN  SubSeq(front, 1, k) \o <<x>> \o SubSeq(front, k + 1, Len(front))

\* a slip: the filter left out
ActiveTemplates_All(ts) == ts

\* templates.filter(t => t.isActive)
ActiveTemplates(ts) == SelectSeq(ts, LAMBDA t : t.isActive)

\* a slip in the loop: no continue after an always-include template is
\* pushed, so that it reaches the last else as well
Pushed_WithoutContinue(activeTemplates, rs, computedVariables, b) ==
    SelectSeq(activeTemplates,
              LAMBDA t : \/ Bucket(evaluateRules(t, rs, computedVariables)) = b
                         \/ /\ evaluateRules(t, rs, computedVariables).isAlwaysInclude
                            /\ b = "optional")

\* the active templates the loop pushes to one bucket, in list order
Pushed(activeTemplates, rs, computedVariables, b) ==
    SelectSeq(activeTemplates,
              LAMBDA t : Bucket(evaluateRules(t, rs, computedVariables)) = b)

selectTemplates(rs, ts, computedVariables) ==
    LET activeTemplates == ActiveTemplates(ts)
    IN  [required |-> SortByName(Pushed(activeTemplates, rs, computedVariables, "required")),
         suggested |-> SortByName(Pushed(activeTemplates, rs, computedVariables, "suggested")),
         optional |-> SortByName(Pushed(activeTemplates, rs, computedVariables, "optional"))]

(***************************************************************************)
(* evaluateFormula and evaluateMathExpression.  A formula and an           *)
(* expression are sequences of tokens: an operator, a parenthesis, a white *)
(* space or another single character stands for itself, a "var" token for  *)
(* the placeholder {name}, a "num" token for the decimal numeral of a      *)
(* non-negative finite number, a "word" token for Infinity or NaN as       *)
(* Number.prototype.toString writes them.  A negative number is written    *)
(* as the token "-" followed by a "num" token, as its characters are.      *)
(***************************************************************************)
Zero == Nat2Num(0)

OpTok(c) == [k |-> "op", c |-> c, v |-> Zero]

LP == [k |-> "(", c |-> "(", v |-> Zero]

RP == [k |-> ")", c |-> ")", v |-> Zero]

WS == [k |-> "ws", c |-> " ", v |-> Zero]

CharTok(c) == [k |-> "char", c |-> c, v |-> Zero]

VarTok(name) == [k |-> "var", c |-> name, v |-> Zero]

NumTok(v) == [k |-> "num", c |-> "", v |-> [v EXCEPT !.neg = FALSE]]

WordTok(w) == [k |-> "word", c |-> w, v |-> Zero]

\* the non-termination of the while loop over '(' in evaluateMathExpression
Hang == [k |-> "hang", neg |-> FALSE, n |-> 0, d |-> 1]

\* Number.prototype.toString, as tokens
NumToString(x) ==
    CASE x.k = "nan" -> <<WordTok("NaN")>>
      [] x.k = "inf" -> IF x.neg THEN <<OpTok("-"), WordTok("Infinity")>>
                        ELSE <<WordTok("Infinity")>>
      [] OTHER -> IF x.neg /\ x.n # 0 THEN <<OpTok("-"), NumTok(x)>>
                  ELSE <<NumTok(x)>>

\* parseFloat(expression) || 0 on a token string
ParseFloatOrZero(e) ==
    LET signed == e # <<>> /\ e[1].k = "op" /\ e[1].c \in {"+", "-"}
        neg == signed /\ e[1].c = "-"
        p == IF signed THEN 2 ELSE 1
        parsed == IF p > Len(e) THEN NaN
                  ELSE IF e[p].k = "num" THEN [e[p].v EXCEPT !.neg = neg]
                  ELSE IF e[p].k = "word" /\ e[p].c = "Infinity" THEN Inf(neg)
                  ELSE NaN
    IN  IF isNaN(parsed) \/ IsZero(parsed) THEN Zero ELSE parsed

\* expression.replace(/\s+/g, '')
RemoveWhiteSpace(e) == SelectSeq(e, LAMBDA t : t.k # "ws")

IsParen(t) == t.k \in {"(", ")"}

\* positions i < j of an innermost group: '(' at i, ')' at j, something but
\* no parenthesis between them (the matches of /\(([^()]+)\)/)
InnermostGroups(e) ==
    {<<i, j>> \in (1..Len(e)) \X (1..Len(e)) :
        /\ i + 1 < j /\ e[i].k = "(" /\ e[j].k = ")"
        /\ \A m \in (i + 1)..(j - 1) : ~IsParen(e[m])}

\* the first position after the first token that holds one of the operators
\* and is not the last position; 0 when there is none
SplitAt(e, ops) ==
    LET cands == {i \in 2..Len(e) : e[i].k = "op" /\ e[i].c \in ops}
    IN  IF cands = {} THEN 0
        ELSE LET i == CHOOSE j \in cands : \A m \in cands : j <= m
             IN  IF i < Len(e) THEN i ELSE 0

Left(e, i) == SubSeq(e, 1, i - 1)

Right(e, i) == SubSeq(e, i + 1, Len(e))

RECURSIVE evaluateMathExpression(_)
evaluateMathExpression(expression) ==
    LET e == RemoveWhiteSpace(expression)
        groups == InnermostGroups(e)
        addSub == SplitAt(e, {"+", "-"})
        mulDiv == SplitAt(e, {"*", "/"})
    IN  IF \E i \in 1..Len(e) : e[i].k = "("
        THEN IF groups = {} THEN Hang
             ELSE LET g == CHOOSE x \in groups : \A y \in groups : x[1] <= y[1]
                      inner == SubSeq(e, g[1] + 1, g[2] - 1)
                  IN  evaluateMathExpression(
                          SubSeq(e, 1, g[1] - 1)
                              \o NumToString(evaluateMathExpression(inner))
                              \o SubSeq(e, g[2] + 1, Len(e)))
        ELSE IF addSub # 0 /\ e[addSub - 1].k # "op"
        THEN IF e[addSub].c = "+"
             THEN NumAdd(evaluateMathExpression(Left(e, addSub)),
                         evaluateMathExpression(Right(e, addSub)))
             ELSE NumSub(evaluateMathExpression(Left(e, addSub)),
                         evaluateMathExpression(Right(e, addSub)))
        ELSE IF mulDiv # 0
        THEN IF e[mulDiv].c = "*"
             THEN NumMul(evaluateMathExpression(Left(e, mulDiv)),
                         evaluateMathExpression(Right(e, mulDiv)))
             ELSE NumDiv(evaluateMathExpression(Left(e, mulDiv)),
                         evaluateMathExpression(Right(e, mulDiv)))
        ELSE ParseFloatOrZero(e)

\* variables[varName]: a string, or undefined
NoVar == [defined |-> FALSE, s |-> <<>>]

VarStr(s) == [defined |-> TRUE, s |-> s]

VarValue(variables, name) ==
    IF name \in DOMAIN variables THEN variables[name] ELSE NoVar

\* the number a placeholder is replaced by
NumValue(value) ==
    IF value.defined /\ value.s # <<>>
    THEN LET cleanValue == SelectSeq(value.s, LAMBDA c : c \notin {"$", ","})
             numValue == parseFloat(cleanValue)
         IN  IF isNaN(numValue) THEN Zero ELSE numValue
    ELSE Zero

\* the expression after every placeholder is replaced
RECURSIVE Substitute(_, _)
Substitute(formula, variables) ==
    IF formula = <<>> THEN <<>>
    ELSE (IF formula[1].k = "var"
          THEN NumToString(NumValue(VarValue(variables, formula[1].c)))
          ELSE <<formula[1]>>) \o Substitute(Tail(formula), variables)

\* a slip in the character class: any single character let through
AllowedOnly_AnyCharacter(expression) ==
    /\ expression # <<>>
    /\ \A i \in 1..Len(expression) :
         expression[i].k \in {"num", "op", "(", ")", "ws", "char"}

\* /^[\d\s+\-*/().]+$/.test(expression)
AllowedOnly(expression) ==
    /\ expression # <<>>
    /\ \A i \in 1..Len(expression) :
         expression[i].k \in {"num", "op", "(", ")", "ws"}

\* what evaluateFormula returns: '' or result.toString(), or nothing at all
EmptyResult == [t |-> "empty", v |-> Zero]

NumberResult(x) == [t |-> "number", v |-> IF IsZero(x) THEN Zero ELSE x]

NoReturn == [t |-> "hang", v |-> Zero]

\* whether evaluateFormula reaches the call of evaluateMathExpression
InvokesEvaluator(formula, variables) ==
    /\ RemoveWhiteSpace(formula) # <<>>
    /\ AllowedOnly(Substitute(formula, variables))

evaluateFormula(formula, variables) ==
    IF RemoveWhiteSpace(formula) = <<>> THEN EmptyResult
    ELSE LET expression == Substitute(formula, variables)
         IN  IF ~AllowedOnly(expression) THEN EmptyResult
             ELSE LET result == evaluateMathExpression(expression)
                  IN  IF result.k = "hang" THEN NoReturn
                      ELSE IF isNaN(result) \/ ~isFinite(result) THEN EmptyResult
                      ELSE NumberResult(result)

(***************************************************************************)
(* Calls of evaluateCondition on bounded inputs.                           *)
(***************************************************************************)
\* the characters of the answers enumerated exhaustively
CondAlphabet == {"5", ".", "d", "D"}

StringsUpTo(n) == UNION {[1..k -> CondAlphabet] : k \in 0..n}

\* marks a question with no response at all while a response list is built
Absent == [t |-> "absent", s |-> <<>>, n |-> 0, a |-> <<>>, g |-> <<>>]

\* the response list holding the present ones of the given responses, in order
Present(rs) == SelectSeq(rs, LAMBDA r : r.value.t # "absent")

Individual == [hasType |-> TRUE, type |-> <<"i", "n", "d">>]

Corporation ==
    [hasType |-> TRUE, type |-> <<"C", "o", "r", "p", "o", "r", "a", "t", "i", "o", "n">>]

Untyped == [hasType |-> FALSE, type |-> <<>>]

\* the answers to question "state": every short string, an array, null, none
StateValues ==
    {VStr(s) : s \in StringsUpTo(MaxStrLen)}
        \cup {VArr(<<<<"5">>, <<"d">>>>), VNull, Absent}

\* the answers to question "ref", which a condition may name as its operand
RefValues == {VStr(<<"0", "5">>), Absent}

\* the repeating group "founders"
FoundersValues == {VGroup(<<Individual, Corporation>>), Absent}

\* a raw answer whose id is the name of a computed variable
RawCountValues == {VStr(<<"2">>), Absent}

CondResponses ==
    {Present(<<Response("state", st), Response("ref", rf),
               Response("founders", fd), Response("foundersCount", rc)>>) :
        st \in StateValues, rf \in RefValues,
        fd \in FoundersValues, rc \in RawCountValues}

\* literal operands
CondOperands ==
    {<<"5">>, <<"5", ".", "0">>, <<"d">>, <<"2">>, <<"d", ",", " ", "5">>}

\* the conditions evaluated: on the answer "state" or on the count of founders
Conditions ==
    {[questionId |-> q, operator |-> op, value |-> v, valueType |-> "literal",
      valueQuestionId |-> "", sourceType |-> st] :
        q \in {"state", "foundersCount"}, op \in Operators,
        v \in CondOperands, st \in {"undefined", "question", "computed"}}
    \cup
    {[questionId |-> q, operator |-> op, value |-> <<>>, valueType |-> "question",
      valueQuestionId |-> "ref", sourceType |-> st] :
        q \in {"state", "foundersCount"}, op \in Operators,
        st \in {"undefined", "computed"}}

IdleCondition ==
    [questionId |-> "", operator |-> "==", value |-> <<>>, valueType |-> "literal",
     valueQuestionId |-> "", sourceType |-> "undefined"]

NoCondCall ==
    [called |-> FALSE, condition |-> IdleCondition, hasTable |-> FALSE, result |-> FALSE]

IdleTemplate ==
    [id |-> "", name |-> <<>>, displayName |-> <<>>, rules |-> <<>>, isActive |-> FALSE]

IdleRules ==
    [called |-> FALSE, template |-> IdleTemplate, hasTable |-> FALSE,
     evaluation |-> Evaluation("", Nat2Num(0), 0, 0, FALSE, FALSE)]

IdleSelect ==
    [called |-> FALSE, hasTable |-> FALSE,
     required |-> <<>>, suggested |-> <<>>, optional |-> <<>>]

IdleFormula ==
    [called |-> FALSE, formula |-> <<>>, variables |-> <<>>, evaluated |-> FALSE,
     result |-> EmptyResult]

\* no call made: the value of a call variable in the specifications that do
\* not use it
NoCall == [called |-> FALSE]

\* nothing called on the date functions, the single steps, the store and the form
IdleFurther ==
    /\ dateCall = NoCall
    /\ stepsCall = NoCall
    /\ store = NoCall
    /\ form = NoCall

LaterIdle ==
    /\ orderCall = NoCall
    /\ caseCall = NoCall
    /\ transformCall = NoCall
    /\ personsCall = NoCall
    /\ downloadCall = NoCall

\* the computedVariables argument of a call: the table the API route builds
\* from the same responses (api/templates/index.ts), or none (the tests)
TableArg(hasTable, rs) ==
    IF hasTable THEN Table(computeVariablesFromResponses(rs)) ELSE NoTable

InitCond ==
    /\ IdleFurther
    /\ responses \in CondResponses
    /\ condCall = NoCondCall
    /\ templates = <<>>
    /\ selectCall = IdleSelect
    /\ rulesCall = IdleRules
    /\ formulaCall = IdleFormula
    /\ LaterIdle

\* one call evaluateCondition(condition, responses[, computedVariables])
EvaluateCondition ==
    /\ ~condCall.called
    /\ \E condition \in Conditions, hasTable \in BOOLEAN :
         condCall' = [called |-> TRUE, condition |-> condition, hasTable |-> hasTable,
                      result |-> evaluateCondition(condition, responses,
                                                   TableArg(hasTable, responses))]
    /\ UNCHANGED <<responses, templates, selectCall, rulesCall, formulaCall, laterCalls, furtherCalls>>

NextCond == EvaluateCondition

SpecCond == InitCond /\ [][NextCond]_vars

(***************************************************************************)
(* Claims about evaluateCondition (checked under SpecCond).                *)
(***************************************************************************)
\* the raw answer to question q is missing: no response, or a null value
NoAnswer(rs, q) ==
    \A i \in 1..Len(rs) :
        rs[i].questionId = q =>
            /\ rs[i].value.t = "null"
            /\ \A m \in 1..(i - 1) : rs[m].questionId # q

\* the actual value of the call's condition is missing: no answer for a
\* question condition, no table entry for a computed condition (no answer
\* either when the call passed no table)
CallActualMissing ==
    LET c == condCall.condition
    IN  IF c.sourceType = "computed" /\ condCall.hasTable
        THEN c.questionId \notin DOMAIN computeVariablesFromResponses(responses)
        ELSE NoAnswer(responses, c.questionId)

\* the operand of the call's condition exists: a literal, or an answered question
CallOperandPresent ==
    LET c == condCall.condition
    IN  c.valueType = "question" /\ c.valueQuestionId # ""
            => ~NoAnswer(responses, c.valueQuestionId)

\* the two strings the call compares
CallValueStr ==
    ValueToString(ActualValue(condCall.condition, responses,
                              TableArg(condCall.hasTable, responses)))

CallOperandStr ==
    LET c == condCall.condition
    IN  IF c.valueType = "question" /\ c.valueQuestionId # ""
        THEN ValueToString(FindValue(responses, c.valueQuestionId))
        ELSE c.value

\* "parses as a number": parseFloat finds a numeral at the start of the string
ParsesAsNumber(s) == ~isNaN(parseFloat(s))

\* C6: with a missing actual value evaluateCondition returns true for the
\* operator != and false for every other operator, whatever the operand is.
C6_MissingActual ==
    condCall.called /\ CallActualMissing
        => (condCall.result <=> condCall.condition.operator = "!=")

C6_Witness ==
    /\ condCall.called /\ CallActualMissing
    /\ condCall.condition.operator = "!="
    /\ condCall.condition.sourceType = "computed" /\ condCall.hasTable
    /\ condCall.result

\* the responses without any response to question q
WithoutAnswer(rs, q) == SelectSeq(rs, LAMBDA r : r.questionId # q)

\* C7: the result of a computed condition never depends on a raw response
\* that has the condition's questionId, in every call (with or without a
\* computed table): removing that response leaves the result unchanged.
C7_ComputedIgnoresRaw ==
    LET c == condCall.condition
    IN  /\ condCall.called
        /\ c.sourceType = "computed"
        /\ c.valueQuestionId # c.questionId
        => condCall.result =
               evaluateCondition(c, WithoutAnswer(responses, c.questionId),
                                 TableArg(condCall.hasTable, responses))

\* C8: for == and != with a present actual value (and operand), the two are
\* compared as numbers when both parse as numbers and as lower-cased strings
\* otherwise.
C8_Equality ==
    LET c == condCall.condition
        a == CallValueStr
        b == CallOperandStr
        equal == IF ParsesAsNumber(a) /\ ParsesAsNumber(b)
                 THEN LET x == parseFloat(a)
                          y == parseFloat(b)
                      IN  SNum(x) * y.d = SNum(y) * x.d
                 ELSE toLowerCase(a) = toLowerCase(b)
    IN  /\ condCall.called
        /\ c.operator \in {"==", "!="}
        /\ ~CallActualMissing /\ CallOperandPresent
        => (condCall.result <=> IF c.operator = "==" THEN equal ELSE ~equal)

\* "5" == "5.0" is true although the strings differ
C8_Witness ==
    /\ condCall.called
    /\ condCall.condition.operator = "=="
    /\ condCall.condition.sourceType # "computed"
    /\ condCall.condition.questionId = "state"
    /\ CallValueStr = <<"5">> /\ CallOperandStr = <<"5", ".", "0">>
    /\ condCall.result

\* C9: an ordering operator is true only if both sides parse as numbers and
\* the numeric relation holds (and, both being present, it is then true).
C9_Ordering ==
    LET c == condCall.condition
        a == CallValueStr
        b == CallOperandStr
        x == parseFloat(a)
        y == parseFloat(b)
        lhs == SNum(x) * y.d
        rhs == SNum(y) * x.d
        rel == CASE c.operator = ">" -> lhs > rhs
                 [] c.operator = ">=" -> lhs >= rhs
                 [] c.operator = "<" -> lhs < rhs
                 [] c.operator = "<=" -> lhs <= rhs
    IN  /\ condCall.called
        /\ c.operator \in {">", ">=", "<", "<="}
        => (condCall.result <=>
               /\ ~CallActualMissing /\ CallOperandPresent
               /\ ParsesAsNumber(a) /\ ParsesAsNumber(b) /\ rel)

\* "5.5" >= "05": numerically true
C9_Witness ==
    /\ condCall.called
    /\ condCall.condition.operator = ">="
    /\ CallValueStr = <<"5", ".", "5">> /\ CallOperandStr = <<"0", "5">>
    /\ condCall.result

(***************************************************************************)
(* Calls of evaluateRules and selectTemplates on bounded inputs.           *)
(***************************************************************************)
Yes == <<"y", "e", "s">>

Cond(q, op, v, st) ==
    [questionId |-> q, operator |-> op, value |-> v, valueType |-> "literal",
     valueQuestionId |-> "", sourceType |-> st]

CondQ1 == Cond("q1", "==", Yes, "question")

CondQ2 == Cond("q2", "==", Yes, "undefined")

CondFounders == Cond("foundersCount", ">=", <<"2">>, "computed")

Rule(conds, lop, prio, always, manual) ==
    [conditions |-> conds, logicalOperator |-> lop, priority |-> prio,
     isAlwaysInclude |-> always, isManualOnly |-> manual]

\* the rules templates are built from
RulePool ==
    { Rule(<<>>, "undefined", 2, TRUE, FALSE),
      Rule(<<CondQ1>>, "AND", 1, FALSE, TRUE),
      Rule(<<>>, "AND", 1, FALSE, FALSE),
      Rule(<<CondQ1>>, "AND", 1, FALSE, FALSE),
      Rule(<<CondQ1, CondQ2>>, "undefined", 2, FALSE, FALSE),
      Rule(<<CondQ1, CondQ2>>, "OR", 1, FALSE, FALSE),
      Rule(<<CondFounders>>, "AND", 3, FALSE, FALSE) }

RuleLists == UNION {[1..k -> RulePool] : k \in 0..MaxRules}

Template(id, name, rules, active) ==
    [id |-> id, name |-> name, displayName |-> name, rules |-> rules,
     isActive |-> active]

\* the template under study, active or not, with any rule list
SubjectTemplates ==
    {Template("t", <<"B">>, rules, active) : rules \in RuleLists, active \in BOOLEAN}

\* the other template of the list
OtherTemplates ==
    { Template("u", <<"A">>, <<Rule(<<>>, "AND", 1, TRUE, FALSE)>>, FALSE),
      Template("u", <<"C">>, <<Rule(<<CondQ2>>, "AND", 1, FALSE, FALSE)>>, TRUE) }

SelectResponses ==
    {Present(<<Response("q1", a1), Response("q2", a2), Response("founders", fd)>>) :
        a1 \in {VStr(Yes), Absent},
        a2 \in {VStr(<<"Y", "E", "S">>), Absent},
        fd \in {VGroup(<<Individual, Untyped>>), Absent}}

InitSelect ==
    /\ IdleFurther
    /\ responses \in SelectResponses
    /\ templates \in {<<t, u>> : t \in SubjectTemplates, u \in OtherTemplates}
    /\ condCall = NoCondCall
    /\ selectCall = IdleSelect
    /\ rulesCall = IdleRules
    /\ formulaCall = IdleFormula
    /\ LaterIdle

\* one call evaluateRules(template, responses[, computedVariables])
EvaluateRules ==
    /\ ~rulesCall.called /\ ~selectCall.called
    /\ \E i \in 1..Len(templates), hasTable \in BOOLEAN :
         rulesCall' = [called |-> TRUE, template |-> templates[i], hasTable |-> hasTable,
                       evaluation |-> evaluateRules(templates[i], responses,
                                                    TableArg(hasTable, responses))]
    /\ UNCHANGED <<responses, templates, condCall, selectCall, formulaCall, laterCalls, furtherCalls>>

\* one call selectTemplates(responses, templates[, computedVariables])
SelectTemplates ==
    /\ ~rulesCall.called /\ ~selectCall.called
    /\ \E hasTable \in BOOLEAN :
         LET sel == selectTemplates(responses, templates, TableArg(hasTable, responses))
         IN  selectCall' = [called |-> TRUE, hasTable |-> hasTable,
                            required |-> sel.required, suggested |-> sel.suggested,
                            optional |-> sel.optional]
    /\ UNCHANGED <<responses, templates, condCall, rulesCall, formulaCall, laterCalls, furtherCalls>>

NextSelect == EvaluateRules \/ SelectTemplates

SpecSelect == InitSelect /\ [][NextSelect]_vars

(***************************************************************************)
(* Claims about evaluateRules and selectTemplates (checked under           *)
(* SpecSelect).                                                            *)
(***************************************************************************)
\* template t is in the given bucket of the selection
InBucket(bucket, t) == \E i \in 1..Len(bucket) : bucket[i] = t

HasAlwaysRule(t) == \E i \in 1..Len(t.rules) : t.rules[i].isAlwaysInclude

HasManualRule(t) == \E i \in 1..Len(t.rules) : t.rules[i].isManualOnly

\* the argument the selection call passed as computedVariables
SelectTable == TableArg(selectCall.hasTable, responses)

RulesTable == TableArg(rulesCall.hasTable, responses)

\* a rule with conditions holds: all of them (AND, the default) or one (OR)
RuleHolds(rule, rs, tbl) ==
    LET met == {i \in 1..Len(rule.conditions) :
                   evaluateCondition(rule.conditions[i], rs, tbl)}
    IN  IF rule.logicalOperator = "OR" THEN met # {}
        ELSE met = 1..Len(rule.conditions)

\* the rules of t that have at least one condition, and those of them that hold
WithConditions(t) == {i \in 1..Len(t.rules) : Len(t.rules[i].conditions) >= 1}

Matching(t, rs, tbl) == {i \in WithConditions(t) : RuleHolds(t.rules[i], rs, tbl)}

C2_AlwaysInclude ==
    rulesCall.called /\ HasAlwaysRule(rulesCall.template)
        => /\ rulesCall.evaluation.score = One
           /\ rulesCall.evaluation.isAlwaysInclude
           /\ ~rulesCall.evaluation.isManualOnly

\* an always-include rule after a manual-only rule and a failing rule
C2_Witness ==
    /\ rulesCall.called
    /\ HasAlwaysRule(rulesCall.template) /\ HasManualRule(rulesCall.template)
    /\ ~rulesCall.template.rules[1].isAlwaysInclude
    /\ \E i \in WithConditions(rulesCall.template) :
         ~RuleHolds(rulesCall.template.rules[i], responses, RulesTable)
    /\ rulesCall.evaluation.score = One

\* C3: a template with a manual-only rule and no always-include rule
\* evaluates to score 0 with isManualOnly true, and an active one is placed
\* in optional, never in required or suggested.
C3_ManualOnly ==
    /\ rulesCall.called /\ HasManualRule(rulesCall.template)
           /\ ~HasAlwaysRule(rulesCall.template)
         => /\ rulesCall.evaluation.score = Nat2Num(0)
            /\ rulesCall.evaluation.isManualOnly
    /\ selectCall.called =>
         \A i \in 1..Len(templates) :
             LET t == templates[i]
             IN  t.isActive /\ HasManualRule(t) /\ ~HasAlwaysRule(t)
                   => /\ InBucket(selectCall.optional, t)
                      /\ ~InBucket(selectCall.required, t)
                      /\ ~InBucket(selectCall.suggested, t)

\* a manual-only template all of whose conditions hold is still optional
C3_Witness ==
    /\ selectCall.called
    /\ \E i \in 1..Len(templates) :
         LET t == templates[i]
         IN  /\ t.isActive /\ HasManualRule(t) /\ ~HasAlwaysRule(t)
             /\ WithConditions(t) # {}
             /\ Matching(t, responses, SelectTable) = WithConditions(t)
             /\ InBucket(selectCall.optional, t)

\* C4: without always-include and manual-only rules the score is the number
\* of rules with conditions that hold divided by the number of rules with
\* conditions, and 0 when no rule has conditions.
C4_Score ==
    LET t == rulesCall.template
        ev == rulesCall.evaluation
        total == Cardinality(WithConditions(t))
        matched == Cardinality(Matching(t, responses, RulesTable))
    IN  rulesCall.called /\ ~HasAlwaysRule(t) /\ ~HasManualRule(t)
          => /\ ev.matchedRules = matched
             /\ ev.totalRules = total
             /\ ev.score.k = "fin" /\ ~ev.score.neg
             /\ IF total = 0 THEN ev.score.n = 0
                ELSE ev.score.n * total = matched * ev.score.d
             /\ ~ev.isAlwaysInclude /\ ~ev.isManualOnly

\* three rules, one without conditions, one matched, one not: score 1/2
C4_Witness ==
    LET t == rulesCall.template
    IN  /\ rulesCall.called /\ ~HasAlwaysRule(t) /\ ~HasManualRule(t)
        /\ Len(t.rules) = 3
        /\ Cardinality(WithConditions(t)) = 2
        /\ Cardinality(Matching(t, responses, RulesTable)) = 1
        /\ rulesCall.evaluation.score = Half

\* C5: an inactive template is in none of the three buckets.
C5_InactiveExcluded ==
    selectCall.called =>
        \A i \in 1..Len(templates) :
            ~templates[i].isActive =>
                /\ ~InBucket(selectCall.required, templates[i])
                /\ ~InBucket(selectCall.suggested, templates[i])
                /\ ~InBucket(selectCall.optional, templates[i])

\* an inactive template with an always-include rule, next to a selected one
C5_Witness ==
    /\ selectCall.called
    /\ \E i \in 1..Len(templates) :
         ~templates[i].isActive /\ HasAlwaysRule(templates[i])
    /\ Len(selectCall.required) + Len(selectCall.suggested)
           + Len(selectCall.optional) = 1

(***************************************************************************)
(* Calls of evaluateFormula on bounded inputs.                             *)
(***************************************************************************)
\* the name of the i-th variable of a formula
VarNames == <<"a", "b", "c", "d", "e", "f">>

ArithOps == {"+", "-", "*", "/"}

\* the well-formed formulas over the variables lo..hi, one occurrence each,
\* in order: Operand is a placeholder or a parenthesised formula, Joined a
\* formula of at least two operands, Formulas either of them
RECURSIVE Operand(_, _), Joined(_, _), Formulas(_, _)
Operand(lo, hi) ==
    IF lo = hi THEN {<<VarTok(VarNames[lo])>>}
    ELSE {<<LP>> \o x \o <<RP>> : x \in Joined(lo, hi)}

Joined(lo, hi) ==
    UNION {{x \o <<OpTok(op)>> \o y :
                x \in Operand(lo, m), op \in ArithOps, y \in Formulas(m + 1, hi)} :
           m \in lo..(hi - 1)}

Formulas(lo, hi) == Operand(lo, hi) \cup Joined(lo, hi)

\* formulas that are not well-formed arithmetic, or are written with spaces
OddFormulas ==
    { <<>>,
      <<WS, WS>>,
      <<VarTok("a"), WS, OpTok("*"), WS, VarTok("b")>>,
      <<VarTok("a"), CharTok("x"), VarTok("b")>>,
      <<CharTok("{"), CharTok("a")>> }

FormulaSet ==
    UNION {IF k = 1 THEN Operand(1, 1) ELSE Joined(1, k) : k \in 1..MaxOperands}
        \cup OddFormulas

\* the values a variable of the map may have
VarValues ==
    { NoVar, VarStr(<<>>), VarStr(<<"0">>), VarStr(<<"2">>), VarStr(<<"$", "3">>),
      VarStr(<<"-", "1">>), VarStr(<<"d">>) }

\* the variables a formula names
VarsOf(formula) == {formula[i].c : i \in {j \in 1..Len(formula) : formula[j].k = "var"}}

InitFormula ==
    /\ IdleFurther
    /\ responses = <<>>
    /\ templates = <<>>
    /\ condCall = NoCondCall
    /\ selectCall = IdleSelect
    /\ rulesCall = IdleRules
    /\ LaterIdle
    /\ \E f \in FormulaSet :
         \E vs \in [VarsOf(f) -> VarValues] :
            formulaCall = [called |-> FALSE, formula |-> f, variables |-> vs,
                           evaluated |-> FALSE, result |-> EmptyResult]

\* one call evaluateFormula(formula, variables)
EvaluateFormula ==
    /\ ~formulaCall.called
    /\ formulaCall' = [formulaCall EXCEPT
                          !.called = TRUE,
                          !.evaluated = InvokesEvaluator(formulaCall.formula,
                                                         formulaCall.variables),
                          !.result = evaluateFormula(formulaCall.formula,
                                                     formulaCall.variables)]
    /\ UNCHANGED <<responses, templates, condCall, selectCall, rulesCall, laterCalls, furtherCalls>>

NextFormula == EvaluateFormula

SpecFormula == InitFormula /\ [][NextFormula]_vars

(***************************************************************************)
(* Claims about evaluateFormula (checked under SpecFormula).               *)
(***************************************************************************)
\* a token that carries a signed number: the value of a variable or of a
\* parenthesised part of a formula
ValTok(x) == [k |-> "val", c |-> "", v |-> x]

\* the formula with every placeholder replaced by the value of its variable
Valued(formula, variables) ==
    [i \in 1..Len(formula) |->
        IF formula[i].k = "var"
        THEN ValTok(NumValue(VarValue(variables, formula[i].c)))
        ELSE formula[i]]

\* the last position that holds one of the operators; 0 when there is none
LastOp(e, ops) ==
    LET cands == {i \in 1..Len(e) : e[i].k = "op" /\ e[i].c \in ops}
    IN  IF cands = {} THEN 0 ELSE CHOOSE j \in cands : \A m \in cands : m <= j

\* the value of a well-formed expression in standard arithmetic: parentheses
\* first, * and / before + and -, equal precedence from left to right
RECURSIVE StandardValue(_)
StandardValue(e) ==
    LET groups == InnermostGroups(e)
        addSub == LastOp(e, {"+", "-"})
        mulDiv == LastOp(e, {"*", "/"})
    IN  IF groups # {}
        THEN LET g == CHOOSE x \in groups : TRUE
             IN  StandardValue(SubSeq(e, 1, g[1] - 1)
                     \o <<ValTok(StandardValue(SubSeq(e, g[1] + 1, g[2] - 1)))>>
                     \o SubSeq(e, g[2] + 1, Len(e)))
        ELSE IF addSub # 0
        THEN IF e[addSub].c = "+"
             THEN NumAdd(StandardValue(Left(e, addSub)), StandardValue(Right(e, addSub)))
             ELSE NumSub(StandardValue(Left(e, addSub)), StandardValue(Right(e, addSub)))
        ELSE IF mulDiv # 0
        THEN IF e[mulDiv].c = "*"
             THEN NumMul(StandardValue(Left(e, mulDiv)), StandardValue(Right(e, mulDiv)))
             ELSE NumDiv(StandardValue(Left(e, mulDiv)), StandardValue(Right(e, mulDiv)))
        ELSE e[1].v

\* the called formula is built from placeholders, + - * / and parentheses
\* only, and every variable it names holds a number
NumericFormula ==
    /\ formulaCall.formula \notin OddFormulas
    /\ \A name \in VarsOf(formulaCall.formula) :
         LET value == VarValue(formulaCall.variables, name)
         IN  /\ value.defined
             /\ ~isNaN(parseFloat(SelectSeq(value.s, LAMBDA c : c \notin {"$", ","})))

\* C10: the result of evaluateFormula on a formula of numeric variables is
\* its value in standard arithmetic, whenever that value is a finite number.
C10_StandardArithmetic ==
    LET std == StandardValue(Valued(formulaCall.formula, formulaCall.variables))
    IN  formulaCall.called /\ NumericFormula /\ isFinite(std)
          => /\ formulaCall.result.t = "number"
             /\ NumEq(formulaCall.result.v, std)

\* the variable at position i of the called formula has the value 0: it
\* holds a numeral equal to 0, or is missing, empty or not a numeral
ZeroVariable(i) ==
    /\ formulaCall.formula[i].k = "var"
    /\ LET value == VarValue(formulaCall.variables, formulaCall.formula[i].c)
       IN  value \in {NoVar, VarStr(<<>>), VarStr(<<"0">>), VarStr(<<"d">>)}

\* the called formula divides by a variable whose value is 0
DividesByZeroVariable ==
    \E i \in 2..Len(formulaCall.formula) :
        /\ formulaCall.formula[i - 1] = OpTok("/")
        /\ ZeroVariable(i)

\* C11: evaluateFormula returns the empty string whenever the formula
\* divides by a variable whose value is 0, at top level or inside
\* parentheses, with a zero or a non-zero numerator.
C11_DivisionByZeroEmpty ==
    formulaCall.called /\ formulaCall.formula \notin OddFormulas
        /\ DividesByZeroVariable
      => formulaCall.result = EmptyResult

\* C11, seen from the code: 0 / 0 inside parentheses is written back as the
\* text NaN, which the next pass reads as 0, so a number is returned.
C11_ZeroOverZeroInParentheses ==
    /\ formulaCall.called
    /\ formulaCall.formula =
           <<LP, VarTok("a"), OpTok("/"), VarTok("b"), RP, OpTok("+"), VarTok("c")>>
    /\ formulaCall.variables =
           [x \in {"a", "b", "c"} |-> IF x = "c" THEN VarStr(<<"2">>) ELSE VarStr(<<"0">>)]
    /\ formulaCall.result = NumberResult(Nat2Num(2))

\* the string holds a numeral once $ and , are removed: an optional sign, then
\* a digit or a decimal point followed by a digit
HoldsNumeral(str) ==
    LET c == SelectSeq(str, LAMBDA ch : ch \notin {"$", ","})
        p == IF c # <<>> /\ c[1] \in {"+", "-"} THEN 2 ELSE 1
    IN  /\ p <= Len(c)
        /\ \/ c[p] \in Digits
           \/ c[p] = "." /\ p + 1 <= Len(c) /\ c[p + 1] \in Digits

\* the variable is missing, empty or non-numeric
Unusable(value) == ~value.defined \/ value.s = <<>> \/ ~HoldsNumeral(value.s)

\* a digit, white space, + - * / ( ) or the decimal point
AllowedToken(t) == t.k \in {"num", "op", "(", ")", "ws"}

\* C12: if the expression after substitution holds a character other than
\* digits, white space, + - * / ( ) and the decimal point, evaluateFormula
\* returns the empty string without invoking the arithmetic evaluator; a
\* placeholder of a missing, empty or non-numeric variable is replaced by 0,
\* and a formula whose only other content is allowed is not rejected.
C12_RejectsOtherCharacters ==
    LET formula == formulaCall.formula
        expression == Substitute(formula, formulaCall.variables)
        unusable == {i \in 1..Len(formula) :
                        /\ formula[i].k = "var"
                        /\ Unusable(VarValue(formulaCall.variables, formula[i].c))}
    IN  formulaCall.called =>
          /\ (\E i \in 1..Len(expression) : ~AllowedToken(expression[i]))
                => formulaCall.result = EmptyResult /\ ~formulaCall.evaluated
          /\ \A i \in unusable :
                Substitute(<<formula[i]>>, formulaCall.variables) = <<NumTok(Zero)>>
          /\ ((\E i \in 1..Len(formula) : formula[i].k # "ws")
                 /\ \A i \in 1..Len(formula) : AllowedToken(formula[i]) \/ i \in unusable)
                => formulaCall.evaluated

\* {a}x{b} with a missing: rejected for the x, not evaluated
C12_Witness ==
    /\ formulaCall.called
    /\ formulaCall.formula = <<VarTok("a"), CharTok("x"), VarTok("b")>>
    /\ ~VarValue(formulaCall.variables, "a").defined
    /\ formulaCall.result = EmptyResult
    /\ ~formulaCall.evaluated

(***************************************************************************)
(* Calls of evaluateRules and selectTemplates on a template and on the     *)
(* same template with its rules permuted and its priorities changed.       *)
(***************************************************************************)
\* the rules the reordered templates are built from
OrderPool ==
    { Rule(<<>>, "undefined", 2, TRUE, FALSE),
      Rule(<<CondQ1>>, "AND", 1, FALSE, TRUE),
      Rule(<<CondQ1>>, "AND", 1, FALSE, FALSE),
      Rule(<<CondQ2>>, "AND", 3, FALSE, FALSE) }

OrderRuleLists == UNION {[1..k -> OrderPool] : k \in 0..MaxRules}

\* the priorities a reordered rule may get
PriorityValues == {1, 2}

\* the permutations of 1..n
RulePermutations(n) == {p \in [1..n -> 1..n] : \A i, j \in 1..n : p[i] = p[j] => i = j}

\* the rules in the order p, the i-th of them with priority prio[i]
Reordered(rules, p, prio) ==
    [i \in 1..Len(rules) |-> [rules[p[i]] EXCEPT !.priority = prio[i]]]

OrderResponses ==
    { <<>>, <<Response("q1", VStr(Yes))>> }

InitOrder ==
    /\ IdleFurther
    /\ responses \in OrderResponses
    /\ templates = <<>>
    /\ condCall = NoCondCall
    /\ selectCall = IdleSelect
    /\ rulesCall = IdleRules
    /\ formulaCall = IdleFormula
    /\ caseCall = NoCall
    /\ transformCall = NoCall
    /\ personsCall = NoCall
    /\ downloadCall = NoCall
    /\ \E rules \in OrderRuleLists :
         \E p \in RulePermutations(Len(rules)), prio \in [1..Len(rules) -> PriorityValues] :
            orderCall = [called |-> FALSE, kind |-> "none",
                         template |-> Template("t", <<"B">>, rules, TRUE),
                         reordered |-> Template("t", <<"B">>,
                                                Reordered(rules, p, prio), TRUE),
                         first |-> "none", second |-> "none"]

\* the bucket of the selection that holds template t
BucketOf(selection, t) ==
    IF \E i \in 1..Len(selection.required) : selection.required[i] = t THEN "required"
    ELSE IF \E i \in 1..Len(selection.suggested) : selection.suggested[i] = t
    THEN "suggested"
    ELSE IF \E i \in 1..Len(selection.optional) : selection.optional[i] = t
    THEN "optional"
    ELSE "none"

\* evaluateRules called on the template and on the reordered template
EvaluateRulesReordered ==
    /\ ~orderCall.called
    /\ \E hasTable \in BOOLEAN :
         orderCall' = [orderCall EXCEPT
             !.called = TRUE, !.kind = "rules",
             !.first = evaluateRules(orderCall.template, responses,
                                     TableArg(hasTable, responses)),
             !.second = evaluateRules(orderCall.reordered, responses,
                                      TableArg(hasTable, responses))]
    /\ UNCHANGED <<responses, templates, condCall, selectCall, rulesCall, formulaCall,
                   caseCall, transformCall, personsCall, downloadCall,
                   furtherCalls>>

\* selectTemplates called on the template and on the reordered template
SelectTemplatesReordered ==
    /\ ~orderCall.called
    /\ \E hasTable \in BOOLEAN :
         orderCall' = [orderCall EXCEPT
             !.called = TRUE, !.kind = "select",
             !.first = BucketOf(selectTemplates(responses, <<orderCall.template>>,
                                                TableArg(hasTable, responses)),
                                orderCall.template),
             !.second = BucketOf(selectTemplates(responses, <<orderCall.reordered>>,
                                                 TableArg(hasTable, responses)),
                                 orderCall.reordered)]
    /\ UNCHANGED <<responses, templates, condCall, selectCall, rulesCall, formulaCall,
                   caseCall, transformCall, personsCall, downloadCall,
                   furtherCalls>>

NextOrder == EvaluateRulesReordered \/ SelectTemplatesReordered

SpecOrder == InitOrder /\ [][NextOrder]_vars

\* C20: permuting the rules of a template and changing their priorities
\* leaves the result of evaluateRules (score, matched and total counts,
\* flags) and the bucket selectTemplates puts the template in unchanged.
C20_OrderIrrelevant ==
    orderCall.called => orderCall.first = orderCall.second

\* one of two rules matched, before and after the rules swap places and
\* priorities
C20_Witness ==
    /\ orderCall.called /\ orderCall.kind = "rules"
    /\ Len(orderCall.template.rules) = 2
    /\ orderCall.reordered.rules[1].conditions = orderCall.template.rules[2].conditions
    /\ orderCall.template.rules[1].conditions # orderCall.template.rules[2].conditions
    /\ orderCall.template.rules[1].priority < orderCall.template.rules[2].priority
    /\ orderCall.reordered.rules[1].priority < orderCall.reordered.rules[2].priority
    /\ orderCall.first.matchedRules = 1 /\ orderCall.first.totalRules = 2
    /\ orderCall.second.score = Half

(***************************************************************************)
(* createCaseVariations.  A variable map (a JavaScript object) is the      *)
(* sequence of its entries in insertion order, as Object.entries lists     *)
(* them; a key is a string of characters, a value a string or an array.    *)
(***************************************************************************)
\* obj[key]: the value of the entry with that key, undefined without one
Get(obj, key) ==
    IF \E i \in 1..Len(obj) : obj[i].key = key
    THEN obj[CHOOSE i \in 1..Len(obj) : obj[i].key = key].value
    ELSE VUndef

\* obj[key] = value: an existing entry keeps its place, a new one goes last
Put(obj, key, value) ==
    IF \E i \in 1..Len(obj) : obj[i].key = key
    THEN [i \in 1..Len(obj) |->
             IF obj[i].key = key THEN [key |-> key, value |-> value] ELSE obj[i]]
    ELSE Append(obj, [key |-> key, value |-> value])

\* the truth value JavaScript gives a value of a variable map
Truthy(v) == v.t \in {"array", "group"} \/ (v.t = "string" /\ v.s # <<>>)

\* key.charAt(0).toUpperCase() + key.slice(1)
Capitalized(key) == IF key = <<>> THEN key ELSE <<UpperChar(key[1])>> \o Tail(key)

\* key.charAt(0).toLowerCase() + key.slice(1)
Uncapitalized(key) == IF key = <<>> THEN key ELSE <<LowerChar(key[1])>> \o Tail(key)

\* one assignment of a run of assignments: obj[key] = value, or with
\* ifNot the guarded one, if (!obj[key]) obj[key] = value
Write(key, value, ifNot) == [key |-> key, value |-> value, ifNot |-> ifNot]

\* whether assignment i of the assignments ws to one key takes place: a
\* guarded one does when no assignment before it left a truthy value
TakesPlace(ws, i) ==
    \/ ~ws[i].ifNot
    \/ ~\E j \in 1..(i - 1) :
           /\ Truthy(ws[j].value)
           /\ \A k \in (j + 1)..(i - 1) : ws[k].ifNot

\* the value the assignments ws to one key leave under it
ValueLeft(ws) ==
    ws[CHOOSE i \in 1..Len(ws) :
           TakesPlace(ws, i) /\ \A k \in (i + 1)..Len(ws) : ~TakesPlace(ws, k)].value

\* the object a run of assignments builds from the empty object: the keys
\* in the order of their first assignment (the first one to a key always
\* takes place), each with the value left under it
Built(writes, firsts) ==
    [p \in 1..Len(firsts) |->
        [key |-> writes[firsts[p]].key,
         value |-> ValueLeft(SelectSeq(writes,
                                       LAMBDA w : w.key = writes[firsts[p]].key))]]
    \o <<>>

Written(writes) ==
    Built(writes,
          SelectSeq([i \in 1..Len(writes) |-> i],
                    LAMBDA i : \A j \in 1..(i - 1) : writes[j].key # writes[i].key))

\* the object obj after the run of assignments writes
Assigned(obj, writes) ==
    Written([i \in 1..Len(obj) |-> Write(obj[i].key, obj[i].value, FALSE)] \o writes)

\* the assignments createCaseVariations makes for the entry [key, value]: a
\* value that is not a string is copied only
CaseWrites(key, value) ==
    IF value.t # "string" THEN <<Write(key, value, FALSE)>>
    ELSE <<Write(key, value, FALSE),
           Write(toLowerCase(key), value, TRUE),
           Write(toUpperCase(key), value, TRUE),
           Write(Capitalized(key), value, TRUE),
           Write(Uncapitalized(key), value, TRUE)>>

\* the assignments of the loop over Object.entries(variables), entries lo..hi
RECURSIVE CaseWritesOver(_, _, _)
CaseWritesOver(variables, lo, hi) ==
    IF lo > hi THEN <<>>
    ELSE IF lo = hi THEN CaseWrites(variables[lo].key, variables[lo].value)
    ELSE CaseWritesOver(variables, lo, (lo + hi) \div 2)
         \o CaseWritesOver(variables, (lo + hi) \div 2 + 1, hi)

createCaseVariations(variables) == Written(CaseWritesOver(variables, 1, Len(variables)))

(***************************************************************************)
(* Calls of createCaseVariations on bounded maps.                          *)
(***************************************************************************)
KeyAlphabet == {"a", "A", "b", "B"}

CaseKeys == {<<c>> : c \in KeyAlphabet} \cup {<<c1, c2>> : c1 \in KeyAlphabet, c2 \in KeyAlphabet}

CaseValues == {VStr(<<>>), VStr(<<"x">>), VStr(<<"y">>), VArr(<<<<"x">>>>)}

\* the maps of at most two entries
CaseMaps ==
    {<<>>} \cup {<<[key |-> k, value |-> v]>> : k \in CaseKeys, v \in CaseValues}
        \cup {<<[key |-> kk[1], value |-> v1], [key |-> kk[2], value |-> v2]>> :
                 kk \in {p \in CaseKeys \X CaseKeys : p[1] # p[2]},
                 v1 \in CaseValues, v2 \in CaseValues}

InitCase ==
    /\ IdleFurther
    /\ responses = <<>>
    /\ templates = <<>>
    /\ condCall = NoCondCall
    /\ selectCall = IdleSelect
    /\ rulesCall = IdleRules
    /\ formulaCall = IdleFormula
    /\ orderCall = NoCall
    /\ transformCall = NoCall
    /\ personsCall = NoCall
    /\ downloadCall = NoCall
    /\ \E m \in CaseMaps :
         caseCall = [called |-> FALSE, variables |-> m, result |-> <<>>]

\* one call createCaseVariations(variables)
CreateCaseVariations ==
    /\ ~caseCall.called
    /\ caseCall' = [caseCall EXCEPT
                       !.called = TRUE,
                       !.result = createCaseVariations(caseCall.variables)]
    /\ UNCHANGED <<responses, templates, condCall, selectCall, rulesCall, formulaCall,
                   orderCall, transformCall, personsCall, downloadCall,
                   furtherCalls>>

NextCase == CreateCaseVariations

SpecCase == InitCase /\ [][NextCase]_vars

\* the key is present in the map
HasKey(obj, key) == \E i \in 1..Len(obj) : obj[i].key = key

\* C13: in the returned map every key of the input holds the value the input
\* gave it (a string with its lower-case, upper-case, first-letter-upper and
\* first-letter-lower variants present, an array unchanged): expansion never
\* changes the value of an existing key, the empty string included.
C13_CaseVariations ==
    caseCall.called =>
        \A i \in 1..Len(caseCall.variables) :
            LET k == caseCall.variables[i].key
                v == caseCall.variables[i].value
            IN  /\ Get(caseCall.result, k) = v
                /\ v.t = "string" =>
                     /\ HasKey(caseCall.result, toLowerCase(k))
                     /\ HasKey(caseCall.result, toUpperCase(k))
                     /\ HasKey(caseCall.result, <<UpperChar(k[1])>> \o Tail(k))
                     /\ HasKey(caseCall.result, <<LowerChar(k[1])>> \o Tail(k))

\* C13, seen from the code: the key a holds the empty string, the key A
\* holds x, and the returned map gives a the value x.
C13_EmptyValueOverwritten ==
    /\ caseCall.called
    /\ caseCall.variables = <<[key |-> <<"a">>, value |-> VStr(<<>>)],
                              [key |-> <<"A">>, value |-> VStr(<<"x">>)]>>
    /\ Get(caseCall.result, <<"a">>) = VStr(<<"x">>)

(***************************************************************************)
(* transformSurveyToVariables: the expansion of repeating groups, the      *)
(* fair market value, the variable mappings, the fallback shares and the   *)
(* sums, followed by createCaseVariations.  Names and values are strings   *)
(* of characters; an item of a repeating group is a map of its fields.     *)
(***************************************************************************)
\* the characters of the names the code writes as string literals
Chars(word) ==
    CASE word = "founders" -> <<"f", "o", "u", "n", "d", "e", "r", "s">>
      [] word = "directors" -> <<"d", "i", "r", "e", "c", "t", "o", "r", "s">>
      [] word = "founder" -> <<"f", "o", "u", "n", "d", "e", "r">>
      [] word = "director" -> <<"d", "i", "r", "e", "c", "t", "o", "r">>
      [] word = "Founder" -> <<"F", "o", "u", "n", "d", "e", "r">>
      [] word = "cash" -> <<"c", "a", "s", "h">>
      [] word = "Cash" -> <<"C", "a", "s", "h">>
      [] word = "Share" -> <<"S", "h", "a", "r", "e">>
      [] word = "name" -> <<"n", "a", "m", "e">>
      [] word = "ceoname" -> <<"c", "e", "o", "n", "a", "m", "e">>
      [] word = "type" -> <<"t", "y", "p", "e">>
      [] word = "corporation" ->
            <<"c", "o", "r", "p", "o", "r", "a", "t", "i", "o", "n">>
      [] word = "Count" -> <<"C", "o", "u", "n", "t">>
      [] word = "Formatted" -> <<"F", "o", "r", "m", "a", "t", "t", "e", "d">>
      [] word = "List" -> <<"L", "i", "s", "t">>
      [] word = "OrList" -> <<"O", "r", "L", "i", "s", "t">>
      [] word = "FMV" -> <<"F", "M", "V">>
      [] word = "cashSum" -> <<"c", "a", "s", "h", "S", "u", "m">>
      [] word = "shareSum" -> <<"s", "h", "a", "r", "e", "S", "u", "m">>
      [] word = "__" -> <<"_", "_">>
      [] word = "__manual__" -> <<"_", "_", "m", "a", "n", "u", "a", "l", "_", "_">>
      [] word = ", " -> <<",", " ">>
      [] word = " and " -> <<" ", "a", "n", "d", " ">>
      [] word = " or " -> <<" ", "o", "r", " ">>
      [] word = ", and " -> <<",", " ", "a", "n", "d", " ">>
      [] word = ", or " -> <<",", " ", "o", "r", " ">>

\* the digits of a natural number with a comma before every group of three,
\* as toLocaleString('en-US') writes the integer part
Grouped(digits) ==
    [i \in 1..(Len(digits) + (Len(digits) - 1) \div 3) |->
        LET fromRight == Len(digits) + (Len(digits) - 1) \div 3 - i
        IN  IF fromRight % 4 = 3 THEN ","
            ELSE digits[Len(digits) - (fromRight - fromRight \div 4)]]

\* the decimal digits of r / d for 0 <= r < d, when they terminate
RECURSIVE FractionDigits(_, _)
FractionDigits(r, d) ==
    IF r = 0 THEN <<>>
    ELSE <<DigitChar((r * 10) \div d)>> \o FractionDigits((r * 10) % d, d)

\* formatNumberWithComma on a number: en-US grouping of the integer part,
\* every decimal digit of the fraction kept; 0 for NaN ("Infinity" stands for
\* the one character toLocaleString writes for an infinite number)
formatNumberWithComma(x) ==
    IF isNaN(x) THEN <<"0">>
    ELSE IF ~isFinite(x) THEN (IF x.neg THEN <<"-", "Infinity">> ELSE <<"Infinity">>)
    ELSE (IF x.neg /\ x.n # 0 THEN <<"-">> ELSE <<>>)
         \o Grouped(NatToStr(x.n \div x.d))
         \o (IF x.n % x.d = 0 THEN <<>>
             ELSE <<".">> \o FractionDigits(x.n % x.d, x.d))

\* formatCurrency on a number
formatCurrency(x) == IF isNaN(x) THEN <<"$", "0">> ELSE <<"$">> \o formatNumberWithComma(x)

\* value.replace(/[$,]/g, '') (or /,/g when the set holds the comma only)
Without(str, chars) == SelectSeq(str, LAMBDA ch : ch \notin chars)

\* toTitleCase: lower case, the first letter of every word upper case
toTitleCase(text) ==
    [i \in 1..Len(text) |->
        IF i = 1 \/ text[i - 1] = " " THEN UpperChar(LowerChar(text[i]))
        ELSE LowerChar(text[i])]

\* items.join(', ')
RECURSIVE formatListComma(_)
formatListComma(items) ==
    IF items = <<>> THEN <<>>
    ELSE IF Len(items) = 1 THEN items[1]
    ELSE items[1] \o Chars(", ") \o formatListComma(Tail(items))

\* formatListAnd (last = " and ", ", and ") and formatListOr (" or ", ", or ")
formatListWith(items, two, last) ==
    IF Len(items) = 0 THEN <<>>
    ELSE IF Len(items) = 1 THEN items[1]
    ELSE IF Len(items) = 2 THEN items[1] \o two \o items[2]
    ELSE formatListComma(SubSeq(items, 1, Len(items) - 1)) \o last \o items[Len(items)]

formatListAnd(items) == formatListWith(items, Chars(" and "), Chars(", and "))

formatListOr(items) == formatListWith(items, Chars(" or "), Chars(", or "))

\* capitalize: the first letter of every word upper case, the rest kept
capitalize(text) ==
    [i \in 1..Len(text) |->
        IF i = 1 \/ text[i - 1] = " " THEN UpperChar(text[i]) ELSE text[i]]

\* value.replace(/[^0-9.-]/g, '')
NumericCharsOnly(str) ==
    SelectSeq(str, LAMBDA ch : ch \in {"0", "1", "2", "3", "4", "5", "6", "7", "8", "9", ".", "-"})

\* formatCurrency on a string
formatCurrencyString(value) ==
    IF value = <<>> THEN <<"$", "0">> ELSE formatCurrency(parseFloat(NumericCharsOnly(value)))

\* item[fieldName] || '' for an item of a repeating group
FieldOf(item, fieldName) ==
    IF Truthy(Get(item, fieldName)) THEN Get(item, fieldName).s ELSE <<>>

\* item['type']?.toLowerCase() === 'corporation', for an item held as a map
CorporationTyped(item) ==
    /\ Get(item, Chars("type")).t = "string"
    /\ toLowerCase(Get(item, Chars("type")).s) = Chars("corporation")

\* one element of fieldValues: currency for cash, title case or capitalize for
\* names, the value itself otherwise (val is item[fieldName] || '')
FieldValue(baseName, fieldName, item, val) ==
    IF /\ toLowerCase(fieldName) = Chars("cash")
       /\ val # <<>>
       /\ ~isNaN(parseFloat(Without(val, {","})))
    THEN formatCurrency(parseFloat(Without(val, {","})))
    ELSE IF toLowerCase(fieldName) = Chars("ceoname") /\ val # <<>>
    THEN toTitleCase(val)
    ELSE IF toLowerCase(fieldName) = Chars("name") /\ val # <<>>
    THEN (IF baseName = Chars("founders") /\ CorporationTyped(item)
          THEN capitalize(val) ELSE toTitleCase(val))
    ELSE val

\* the assignments of the loop over fieldNames for one field: the three
\* lists, then for each item (fieldValues.forEach) its three aliases
FieldWrites(baseName, fieldCapitalized, fieldValues) ==
    <<Write(baseName \o fieldCapitalized \o Chars("Formatted"),
            VStr(formatListAnd(fieldValues)), FALSE),
      Write(baseName \o fieldCapitalized \o Chars("List"),
            VStr(formatListComma(fieldValues)), FALSE),
      Write(baseName \o fieldCapitalized \o Chars("OrList"),
            VStr(formatListOr(fieldValues)), FALSE)>>
    \o [j \in 1..(3 * Len(fieldValues)) |->
           Write((CASE (j - 1) % 3 = 0 -> SubSeq(baseName, 1, Len(baseName) - 1)
                    [] (j - 1) % 3 = 1 ->
                           Capitalized(SubSeq(baseName, 1, Len(baseName) - 1))
                    [] (j - 1) % 3 = 2 -> baseName)
                 \o NatToStr((j - 1) \div 3 + 1) \o fieldCapitalized,
                 VStr(fieldValues[(j - 1) \div 3 + 1]), FALSE)]

\* the loop over Object.keys(groupItems[0]), fields 1..n
RECURSIVE FieldsWrites(_, _, _)
FieldsWrites(baseName, groupItems, n) ==
    IF n = 0 THEN <<>>
    ELSE FieldsWrites(baseName, groupItems, n - 1)
         \o FieldWrites(
                baseName,
                Capitalized(groupItems[1][n].key),
                [i \in 1..Len(groupItems) |->
                    FieldValue(baseName, groupItems[1][n].key, groupItems[i],
                               FieldOf(groupItems[i], groupItems[1][n].key))])

\* one item of the array stored under the name of the group for the loops of
\* a template: every field of the record, formatted as in the aliases (the
\* founder aliases, index, isFirst, isLast and the type flags of the item are
\* read by no step and are left out)
FormattedItem(baseName, item) ==
    [k \in 1..Len(item) |->
        [key |-> item[k].key,
         value |-> IF item[k].value.t = "string"
                   THEN VStr(FieldValue(baseName, item[k].key, item,
                                        FieldOf(item, item[k].key)))
                   ELSE item[k].value]] \o <<>>

\* step 5 for one response: the count, the aliases and the loop array of a
\* repeating group; any other response assigns nothing
GroupWrites(response) ==
    IF response.value.t = "group" /\ Len(response.value.g) > 0
    THEN <<Write(response.questionId \o Chars("Count"),
                 VStr(NatToStr(Len(response.value.g))), FALSE)>>
         \o FieldsWrites(response.questionId, response.value.g, Len(response.value.g[1]))
         \o <<Write(response.questionId,
                    VGroup([i \in 1..Len(response.value.g) |->
                               FormattedItem(response.questionId, response.value.g[i])]
                           \o <<>>),
                    FALSE)>>
    ELSE <<>>

\* step 5: the loop over the responses, responses 1..n
RECURSIVE GroupsWrites(_, _)
GroupsWrites(rs, n) ==
    IF n = 0 THEN <<>> ELSE GroupsWrites(rs, n - 1) \o GroupWrites(rs[n])

\* responses.find(r => r.questionId === questionId)?.value
AnswerTo(rs, questionId) ==
    IF \E i \in 1..Len(rs) : rs[i].questionId = questionId
    THEN rs[CHOOSE i \in 1..Len(rs) :
                /\ rs[i].questionId = questionId
                /\ \A j \in 1..(i - 1) : rs[j].questionId # questionId].value
    ELSE VUndef

\* the question id of the fair market value
FairMarketValueId ==
    Chars("__") \o <<"f", "a", "i", "r", "M", "a", "r", "k", "e", "t", "V", "a", "l", "u", "e">>

\* step 6: FMV from the answer __fairMarketValue, when it is a non-empty string
FMVWrites(rawValue) ==
    IF rawValue.t = "string" /\ rawValue.s # <<>>
    THEN <<Write(Chars("FMV"), VStr(formatCurrencyString(rawValue.s)), FALSE)>>
    ELSE <<>>

\* questionId.startsWith('__')
StartsWithUnderscores(questionId) ==
    Len(questionId) >= 2 /\ SubSeq(questionId, 1, 2) = Chars("__")

\* mapping.defaultValue || fallback
DefaultOr(mapping, fallback) ==
    IF Truthy(mapping.defaultValue) THEN mapping.defaultValue ELSE VStr(fallback)

\* result[variableKey] = result[sourceVariable] when that is truthy, the
\* default (or fallback) otherwise
Resolved(result, mapping, sourceVariable, fallback) ==
    Put(result, mapping.variableName,
        IF Truthy(Get(result, sourceVariable)) THEN Get(result, sourceVariable)
        ELSE DefaultOr(mapping, fallback))

\* the variable the dotted branch reads: group part, capitalized field part and
\* the suffix the transform rule chooses
DottedSource(parts, transformRule) ==
    parts[1] \o Capitalized(parts[2])
    \o (CASE transformRule = "list_or" -> Chars("OrList")
          [] transformRule = "list_comma" -> Chars("List")
          [] OTHER -> Chars("Formatted"))

\* questionId.match(/^__(founder|director)\.(\d+)\.(\w+)$/), parts being the
\* pieces of questionId.substring(2) between the dots
WordChars == Digits \cup {"_"} \cup {UpperLetters[i] : i \in 1..26}
                 \cup {LowerLetters[i] : i \in 1..26}

IndividualMatch(questionId, parts) ==
    /\ StartsWithUnderscores(questionId)
    /\ Len(parts) = 3
    /\ parts[1] \in {Chars("founder"), Chars("director")}
    /\ parts[2] # <<>> /\ \A i \in 1..Len(parts[2]) : parts[2][i] \in Digits
    /\ parts[3] # <<>> /\ \A i \in 1..Len(parts[3]) : parts[3][i] \in WordChars

\* the variable the indexed branch reads first (upper = TRUE) and second
IndexedSource(parts, upper) ==
    (IF upper THEN Capitalized(parts[1]) ELSE parts[1])
    \o NatToStr(DigitsValue(parts[2], 1, Len(parts[2])))
    \o Capitalized(parts[3])

\* the answer branch of step 7 for a mapping none of the earlier branches took
AnswerMapped(result, mapping, rawValue) ==
    IF ~Truthy(rawValue) THEN Put(result, mapping.variableName, DefaultOr(mapping, <<>>))
    ELSE IF rawValue.t = "group" THEN result
    ELSE Put(result, mapping.variableName, rawValue)

\* step 7 for one mapping, the branches in the order of the code
MappingApplied(result, rs, mapping, parts) ==
    IF mapping.questionId = Chars("__manual__")
    THEN (IF ~Truthy(Get(result, mapping.variableName)) /\ Truthy(mapping.defaultValue)
          THEN Put(result, mapping.variableName, mapping.defaultValue)
          ELSE result)
    ELSE IF /\ StartsWithUnderscores(mapping.questionId)
            /\ \E i \in 1..Len(mapping.questionId) : mapping.questionId[i] = "."
            /\ parts[1] # <<>> /\ parts[2] # <<>>
    THEN Resolved(result, mapping, DottedSource(parts, mapping.transformRule), <<>>)
    ELSE IF mapping.questionId \in {Chars("__") \o Chars("founders") \o Chars("Count"),
                                    Chars("__") \o Chars("directors") \o Chars("Count")}
    THEN Resolved(result, mapping,
                  SubSeq(mapping.questionId, 3, Len(mapping.questionId)), <<"0">>)
    ELSE IF IndividualMatch(mapping.questionId, parts)
    THEN (IF Truthy(Get(result, IndexedSource(parts, TRUE)))
          THEN Resolved(result, mapping, IndexedSource(parts, TRUE), <<>>)
          ELSE Resolved(result, mapping, IndexedSource(parts, FALSE), <<>>))
    ELSE AnswerMapped(result, mapping, AnswerTo(rs, mapping.questionId))

\* step 7: the loop over variableMappings, mappings 1..n done
RECURSIVE MappingsApplied(_, _, _, _)
MappingsApplied(result, rs, variableMappings, n) ==
    IF n = 0 THEN result
    ELSE MappingApplied(
             MappingsApplied(result, rs, variableMappings, n - 1), rs,
             variableMappings[n],
             split(SubSeq(variableMappings[n].questionId, 3,
                          Len(variableMappings[n].questionId)), "."))

\* the last founder index the fallback shares and the sums look at
LastSummedFounder == 9

\* parseFloat((result[key] || '0').replace(/[$,]/g, ''))
AmountOf(result, key) ==
    parseFloat(Without(IF Truthy(Get(result, key)) THEN Get(result, key).s ELSE <<"0">>,
                       {"$", ","}))

\* `Founder${i}Cash` and `Founder${i}Share`
FounderKey(i, suffix) == Chars("Founder") \o NatToStr(i) \o Chars(suffix)

\* step 10 for founder i: whether the share is computed (no share set yet,
\* cash and FMV set, both numbers, FMV not 0 and, from the second founder
\* on, the cash above 0)
FallbackApplies(result, i, cashNum, fmvNum) ==
    /\ ~Truthy(Get(result, FounderKey(i, "Share")))
    /\ Truthy(Get(result, FounderKey(i, "Cash")))
    /\ Truthy(Get(result, Chars("FMV")))
    /\ ~isNaN(cashNum) /\ ~isNaN(fmvNum) /\ ~NumEq(fmvNum, Zero)
    /\ (i = 1 \/ NumGt(cashNum, Zero))

\* the assignments of the shares cash / FMV of the founders listed
ShareWrites(result, founders) ==
    [j \in 1..Len(founders) |->
        Write(FounderKey(founders[j], "Share"),
              VStr(formatNumberWithComma(
                  NumDiv(AmountOf(result, FounderKey(founders[j], "Cash")),
                         AmountOf(result, Chars("FMV"))))),
              FALSE)]

\* step 10: the founders 1..LastSummedFounder the fallback applies to get
\* their shares (no share depends on another one)
FallbackShares(result) ==
    Assigned(result,
        ShareWrites(result,
            SelectSeq([i \in 1..LastSummedFounder |-> i],
                LAMBDA i : FallbackApplies(result, i,
                               AmountOf(result, FounderKey(i, "Cash")),
                               AmountOf(result, Chars("FMV"))))))

\* what one founder adds to a total: the number under the key when the key
\* is set and holds a number, nothing otherwise
Addend(result, key, num) ==
    IF Truthy(Get(result, key)) /\ ~isNaN(num) THEN num ELSE Zero

\* totalCash after founders 1..n
RECURSIVE TotalCash(_, _)
TotalCash(result, n) ==
    IF n = 0 THEN Zero
    ELSE NumAdd(TotalCash(result, n - 1),
                Addend(result, FounderKey(n, "Cash"),
                       AmountOf(result, FounderKey(n, "Cash"))))

\* totalShare after founders 1..n (the share loses its commas only)
RECURSIVE TotalShare(_, _)
TotalShare(result, n) ==
    IF n = 0 THEN Zero
    ELSE NumAdd(TotalShare(result, n - 1),
                Addend(result, FounderKey(n, "Share"),
                       parseFloat(Without(
                           IF Truthy(Get(result, FounderKey(n, "Share")))
                           THEN Get(result, FounderKey(n, "Share")).s ELSE <<"0">>,
                           {","}))))

\* step 10b: cashSum and shareSum with their two other spellings
SumWrites(cashSum, shareSum) ==
    <<Write(Chars("cashSum"), VStr(cashSum), FALSE),
      Write(Capitalized(Chars("cashSum")), VStr(cashSum), FALSE),
      Write(toUpperCase(Chars("cashSum")), VStr(cashSum), FALSE),
      Write(Chars("shareSum"), VStr(shareSum), FALSE),
      Write(Capitalized(Chars("shareSum")), VStr(shareSum), FALSE),
      Write(toUpperCase(Chars("shareSum")), VStr(shareSum), FALSE)>>

\* step 10b on the variables step 10 left
Summed(result) ==
    Assigned(result,
        SumWrites(<<"$">> \o formatNumberWithComma(TotalCash(result, LastSummedFounder)),
                  formatNumberWithComma(TotalShare(result, LastSummedFounder))))

\* Math.floor of a finite number
Floor(x) ==
    IF x.n % x.d = 0 THEN x
    ELSE IF x.neg THEN Fin(TRUE, x.n \div x.d + 1, 1)
    ELSE Fin(FALSE, x.n \div x.d, 1)

\* the share field of one item of the founders array: the whole shares its
\* cash buys at the fair market value, 0 without a positive cash amount
ShareOfItem(founder, fmvNum) ==
    IF /\ Truthy(Get(founder, Chars("cash")))
       /\ ~isNaN(parseFloat(Without(Get(founder, Chars("cash")).s, {"$", ","})))
       /\ NumGt(parseFloat(Without(Get(founder, Chars("cash")).s, {"$", ","})), Zero)
    THEN formatNumberWithComma(
             Floor(NumDiv(parseFloat(Without(Get(founder, Chars("cash")).s, {"$", ","})),
                          fmvNum)))
    ELSE <<"0">>

\* step 10d: every item of the founders array gets its share field, when the
\* array and FMV are set and FMV is a number above 0
WithFounderShares(result) ==
    IF /\ Get(result, Chars("founders")).t = "group"
       /\ Truthy(Get(result, Chars("FMV")))
       /\ NumGt(AmountOf(result, Chars("FMV")), Zero)
    THEN Put(result, Chars("founders"),
             VGroup([i \in 1..Len(Get(result, Chars("founders")).g) |->
                        Put(Get(result, Chars("founders")).g[i], <<"s", "h", "a", "r", "e">>,
                            VStr(ShareOfItem(Get(result, Chars("founders")).g[i],
                                             AmountOf(result, Chars("FMV")))))]
                    \o <<>>))
    ELSE result

\* transformSurveyToVariables(responses, variableMappings): steps 5, 6, 7, 10,
\* 10b, 10d and 14.  The steps left out (dates, addresses, officers,
\* calculated variables, bank consent, option pool, designator, stock option)
\* write other names than these steps read; answers are strings or repeating
\* groups and no mapping is __auto__ or __calculated__.
transformSurveyToVariables(rs, variableMappings) ==
    createCaseVariations(
        WithFounderShares(
            Summed(
                FallbackShares(
                    MappingsApplied(
                        Written(GroupsWrites(rs, Len(rs))
                                \o FMVWrites(AnswerTo(rs, FairMarketValueId))),
                        rs, variableMappings, Len(variableMappings))))))

(***************************************************************************)
(* Calls transformSurveyToVariables(responses, variableMappings): at most  *)
(* one repeating group (founders or directors), the fair market value and  *)
(* at most one variable mapping.                                           *)
(***************************************************************************)
\* most items in the repeating group of a call
MaxFounders == 10

\* a map from its keys and values, in this order
Obj(keys, values) == [i \in 1..Len(keys) |-> [key |-> keys[i], value |-> values[i]]]

\* the items a repeating group is made of
GroupItemValues ==
    { Obj(<<Chars("name")>>, <<VStr(<<"a", " ", "b">>)>>),
      Obj(<<Chars("name"), Chars("cash")>>, <<VStr(<<"a", " ", "b">>), VStr(<<"5">>)>>),
      Obj(<<Chars("name"), Chars("cash")>>,
          <<VStr(<<"c">>), VStr(<<"1", "0", "0", "0">>)>>) }

\* the lengths of the groups: none, one and two items, as many as the sums
\* look at, and the most
GroupLengths == {0, 1, 2, LastSummedFounder, MaxFounders}

\* the groups: the first item chosen freely, the further ones alike
GroupLists ==
    { [i \in 1..n |->
          IF i = 1 THEN first
          ELSE Obj(<<Chars("name"), Chars("cash")>>, <<VStr(<<"c">>), VStr(<<"5">>)>>)] :
        n \in GroupLengths, first \in GroupItemValues }

\* the answers of a call
TransformResponses ==
    { g \o f :
        g \in {<<>>} \cup { <<[questionId |-> Chars(id), value |-> VGroup(items)]>> :
                              id \in {"founders", "directors"}, items \in GroupLists },
        f \in {<<>>} \cup { <<[questionId |-> FairMarketValueId, value |-> VStr(s)]>> :
                              s \in {<<"2">>, <<"0">>} } }

\* a mapping of variable V
MappingOf(questionId, defaultValue, transformRule) ==
    [variableName |-> <<"V">>, questionId |-> questionId,
     defaultValue |-> defaultValue, transformRule |-> transformRule]

\* the question ids of the indexed references
IndexedIds ==
    { Chars("__") \o Chars(s) \o <<".">> \o n \o <<".">> \o Chars(f) :
        s \in {"founder", "director"}, n \in {<<"1">>, <<"7">>}, f \in {"cash", "name"} }

\* the question ids of the dotted references
DottedIds ==
    { Chars("__") \o Chars(g) \o <<".">> \o Chars(f) :
        g \in {"founders", "directors"}, f \in {"cash", "name"} }

\* the question ids of the count references
CountIds == { Chars("__") \o Chars(g) \o Chars("Count") : g \in {"founders", "directors"} }

\* the mapping lists of a call: none, one reference (a dotted one with or
\* without a transform rule), a question nobody answered, or one manual share
TransformMappings ==
    {<<>>}
    \cup { <<MappingOf(q, d, "")>> :
             q \in IndexedIds \cup DottedIds \cup CountIds \cup {<<"q">>},
             d \in {VUndef, VStr(<<"z">>)} }
    \cup { <<MappingOf(q, d, "list_or")>> : q \in DottedIds, d \in {VUndef, VStr(<<"z">>)} }
    \cup { <<[MappingOf(Chars("__manual__"), VStr(<<"7">>), "")
                 EXCEPT !.variableName = FounderKey(i, "Share")]>> : i \in {1, 2} }

InitTransform ==
    /\ IdleFurther
    /\ responses = <<>>
    /\ templates = <<>>
    /\ condCall = NoCondCall
    /\ selectCall = IdleSelect
    /\ rulesCall = IdleRules
    /\ formulaCall = IdleFormula
    /\ orderCall = NoCall
    /\ caseCall = NoCall
    /\ personsCall = NoCall
    /\ downloadCall = NoCall
    /\ \E rs \in TransformResponses, ms \in TransformMappings :
         transformCall = [called |-> FALSE, responses |-> rs,
                          variableMappings |-> ms, result |-> <<>>]

\* one call transformSurveyToVariables(responses, variableMappings)
TransformSurveyToVariables ==
    /\ ~transformCall.called
    /\ transformCall' =
           [transformCall EXCEPT
               !.called = TRUE,
               !.result = transformSurveyToVariables(transformCall.responses,
                                                     transformCall.variableMappings)]
    /\ UNCHANGED <<responses, templates, condCall, selectCall, rulesCall, formulaCall,
                   orderCall, caseCall, personsCall, downloadCall,
                   furtherCalls>>

NextTransform == TransformSurveyToVariables

SpecTransform == InitTransform /\ [][NextTransform]_vars

(***************************************************************************)
(* Claims about the group references of the variable mappings.             *)
(***************************************************************************)
\* the pieces between the dots of a question id without its first two characters
PartsOf(questionId) == split(SubSeq(questionId, 3, Len(questionId)), ".")

\* whether the answers hold item n of the group of that singular name, with
\* that field
ItemHasField(rs, singular, n, field) ==
    /\ AnswerTo(rs, singular \o <<"s">>).t = "group"
    /\ n \in 1..Len(AnswerTo(rs, singular \o <<"s">>).g)
    /\ HasKey(AnswerTo(rs, singular \o <<"s">>).g[n], field)

\* C14: a mapping whose questionId is an indexed reference __founder.N.field
\* or __director.N.field sets its variable to the per-index alias
\* Founder{N}{Field} or Director{N}{Field}, whenever item N and the field exist
C14_IndexedReference ==
    transformCall.called =>
        \A m \in 1..Len(transformCall.variableMappings) :
            ( /\ IndividualMatch(transformCall.variableMappings[m].questionId,
                                 PartsOf(transformCall.variableMappings[m].questionId))
              /\ ItemHasField(
                     transformCall.responses,
                     PartsOf(transformCall.variableMappings[m].questionId)[1],
                     DigitsValue(PartsOf(transformCall.variableMappings[m].questionId)[2], 1,
                         Len(PartsOf(transformCall.variableMappings[m].questionId)[2])),
                     PartsOf(transformCall.variableMappings[m].questionId)[3]) )
            => Get(transformCall.result, transformCall.variableMappings[m].variableName)
                   = Get(transformCall.result,
                         IndexedSource(PartsOf(transformCall.variableMappings[m].questionId),
                                       TRUE))

\* a call with one founder of cash 5 and the mapping of V to __founder.1.cash:
\* Founder1Cash is $5 and V is empty
C14_IndexedReferenceEmpty ==
    /\ transformCall.called
    /\ transformCall.responses =
           <<[questionId |-> Chars("founders"),
              value |-> VGroup(<<Obj(<<Chars("name"), Chars("cash")>>,
                                     <<VStr(<<"a", " ", "b">>), VStr(<<"5">>)>>)>>)]>>
    /\ transformCall.variableMappings =
           <<MappingOf(Chars("__") \o Chars("founder") \o <<".", "1", ".">> \o Chars("cash"),
                       VUndef, "")>>
    /\ Get(transformCall.result, FounderKey(1, "Cash")) = VStr(<<"$", "5">>)
    /\ Get(transformCall.result, <<"V">>) = VStr(<<>>)

\* the items the answers hold for the group of that name, none without one
ItemsOf(rs, baseName) ==
    IF AnswerTo(rs, baseName).t = "group" THEN AnswerTo(rs, baseName).g ELSE <<>>

\* whether the reference of a mapping names nothing: a dotted reference to a
\* group without items or to a field its first item lacks, a count of a
\* group without items, an indexed reference beyond the last item
NamesNothing(rs, questionId, parts) ==
    \/ /\ questionId \in DottedIds
       /\ \/ ItemsOf(rs, parts[1]) = <<>>
          \/ ~HasKey(ItemsOf(rs, parts[1])[1], parts[2])
    \/ /\ questionId \in CountIds
       /\ ItemsOf(rs, SubSeq(questionId, 3, Len(questionId) - 5)) = <<>>
    \/ /\ questionId \in IndexedIds
       /\ DigitsValue(parts[2], 1, Len(parts[2])) > Len(ItemsOf(rs, parts[1] \o <<"s">>))

\* C15: a mapping that references a repeating-group alias, count or person
\* index that does not exist resolves to its defaultValue if it has one and
\* to the empty string otherwise
C15_MissingReference ==
    transformCall.called =>
        \A m \in 1..Len(transformCall.variableMappings) :
            NamesNothing(transformCall.responses,
                         transformCall.variableMappings[m].questionId,
                         PartsOf(transformCall.variableMappings[m].questionId))
            => Get(transformCall.result, transformCall.variableMappings[m].variableName)
                   = DefaultOr(transformCall.variableMappings[m], <<>>)

\* a call without answers and with the mapping of V to __foundersCount, no
\* default: V is 0
C15_MissingCountIsZero ==
    /\ transformCall.called
    /\ transformCall.responses = <<>>
    /\ transformCall.variableMappings =
           <<MappingOf(Chars("__") \o Chars("founders") \o Chars("Count"), VUndef, "")>>
    /\ Get(transformCall.result, <<"V">>) = VStr(<<"0">>)

(***************************************************************************)
(* Claims about the fallback shares and the sums.                          *)
(***************************************************************************)
\* whether a mapping of the call sets the variable of that name
SetByMapping(key) ==
    \E m \in 1..Len(transformCall.variableMappings) :
        transformCall.variableMappings[m].variableName = key

\* C16: for every founder N in 1..9 whose Founder{N}Share no mapping set and
\* for whom a cash amount and a fair market value other than zero exist,
\* Founder{N}Share is floor(cash / fairMarketValue), comma-formatted; a
\* Founder{N}Share set by a mapping is left unchanged
C16_FallbackShare ==
    transformCall.called =>
        \A i \in 1..LastSummedFounder :
            /\ ( /\ ~SetByMapping(FounderKey(i, "Share"))
                 /\ Truthy(Get(transformCall.result, FounderKey(i, "Cash")))
                 /\ Truthy(Get(transformCall.result, Chars("FMV")))
                 /\ ~NumEq(AmountOf(transformCall.result, Chars("FMV")), Zero) )
               => Get(transformCall.result, FounderKey(i, "Share"))
                      = VStr(formatNumberWithComma(Floor(
                            NumDiv(AmountOf(transformCall.result, FounderKey(i, "Cash")),
                                   AmountOf(transformCall.result, Chars("FMV"))))))
            /\ \A m \in 1..Len(transformCall.variableMappings) :
                   transformCall.variableMappings[m].variableName = FounderKey(i, "Share")
                   => Get(transformCall.result, FounderKey(i, "Share"))
                          = transformCall.variableMappings[m].defaultValue

\* a call with one founder of cash 5, the fair market value 2 and no mapping:
\* Founder1Share is 2.5
C16_FractionalShare ==
    /\ transformCall.called
    /\ ItemsOf(transformCall.responses, Chars("founders")) =
           <<Obj(<<Chars("name"), Chars("cash")>>, <<VStr(<<"a", " ", "b">>), VStr(<<"5">>)>>)>>
    /\ AnswerTo(transformCall.responses, FairMarketValueId) = VStr(<<"2">>)
    /\ transformCall.variableMappings = <<>>
    /\ Get(transformCall.result, FounderKey(1, "Share")) = VStr(<<"2", ".", "5">>)

\* the cash amounts of the items 1..n of a group added up, an item without
\* cash adding nothing
RECURSIVE CashOfItems(_, _)
CashOfItems(items, n) ==
    IF n = 0 THEN Zero
    ELSE NumAdd(CashOfItems(items, n - 1),
                IF FieldOf(items[n], Chars("cash")) = <<>> THEN Zero
                ELSE parseFloat(Without(FieldOf(items[n], Chars("cash")), {"$", ","})))

\* the shares Founder{i}Share of the founders 1..n added up
RECURSIVE SharesOfFounders(_, _)
SharesOfFounders(result, n) ==
    IF n = 0 THEN Zero
    ELSE NumAdd(SharesOfFounders(result, n - 1),
                Addend(result, FounderKey(n, "Share"),
                       AmountOf(result, FounderKey(n, "Share"))))

\* C17: cashSum is the sum of the cash amounts of all items of the founders
\* group and shareSum the sum of all founders' shares, for a group of any
\* length, more than 9 founders included
C17_Sums ==
    transformCall.called =>
        /\ Get(transformCall.result, Chars("cashSum"))
               = VStr(<<"$">> \o formatNumberWithComma(
                     CashOfItems(ItemsOf(transformCall.responses, Chars("founders")),
                                 Len(ItemsOf(transformCall.responses, Chars("founders"))))))
        /\ Get(transformCall.result, Chars("shareSum"))
               = VStr(formatNumberWithComma(
                     SharesOfFounders(transformCall.result,
                         Len(ItemsOf(transformCall.responses, Chars("founders"))))))

\* a call with ten founders of cash 5 each: cashSum is $45
C17_TenthFounderLeftOut ==
    /\ transformCall.called
    /\ Len(ItemsOf(transformCall.responses, Chars("founders"))) = 10
    /\ \A i \in 1..10 :
           FieldOf(ItemsOf(transformCall.responses, Chars("founders"))[i], Chars("cash"))
               = <<"5">>
    /\ Get(transformCall.result, FounderKey(10, "Cash")) = VStr(<<"$", "5">>)
    /\ Get(transformCall.result, Chars("cashSum")) = VStr(<<"$", "4", "5">>)

(***************************************************************************)
(* extractAllPersons (download handler).  The person map is the sequence   *)
(* of its persons in insertion order, as Array.from(personMap.values())    *)
(* lists them; a person is its name, its roles and its type (undefined for *)
(* a person no founder item made or typed).  Address, email, cash and      *)
(* ceoName of a person are carried along without a bearing on names, roles *)
(* or types and are left out.  Question ids and field names are compared   *)
(* whole and are plain strings here.                                       *)
(***************************************************************************)
\* a lookup that takes names differing in letter case only for one name
HasPerson_IgnoringCase(personMap, name) ==
    \E i \in 1..Len(personMap) : toLowerCase(personMap[i].name) = toLowerCase(name)

\* personMap.has(name)
HasPerson(personMap, name) == \E i \in 1..Len(personMap) : personMap[i].name = name

\* the person of that name gets the role pushed (and the type corporation,
\* when a corporation founder item is merged), or is set as a new person
WithRole(personMap, name, role, type) ==
    IF HasPerson(personMap, name)
    THEN [i \in 1..Len(personMap) |->
             IF personMap[i].name = name
             THEN [personMap[i] EXCEPT
                      !.roles = Append(@, role),
                      !.type = IF type = "corporation" THEN "corporation" ELSE @]
             ELSE personMap[i]]
    ELSE Append(personMap, [name |-> name, roles |-> <<role>>, type |-> type])

\* item.name?.trim(), the empty string standing for every falsy outcome
TrimmedName(item) ==
    IF Get(item, "name").t = "string" THEN trim(Get(item, "name").s) ELSE <<>>

\* founder.type?.toLowerCase() === 'corporation' ? 'corporation' : 'individual'
founderType(founder) ==
    IF /\ Get(founder, "type").t = "string"
       /\ toLowerCase(Get(founder, "type").s) = Chars("corporation")
    THEN "corporation" ELSE "individual"

\* the loop over the items of the directors answer, items 1..n done
RECURSIVE WithDirectors(_, _, _)
WithDirectors(personMap, items, n) ==
    IF n = 0 THEN personMap
    ELSE IF TrimmedName(items[n]) = <<>> THEN WithDirectors(personMap, items, n - 1)
    ELSE WithRole(WithDirectors(personMap, items, n - 1), TrimmedName(items[n]),
                  "Director", "undefined")

\* the loop over the items of the founders answer, items 1..n done
RECURSIVE WithFounders(_, _, _)
WithFounders(personMap, items, n) ==
    IF n = 0 THEN personMap
    ELSE IF TrimmedName(items[n]) = <<>> THEN WithFounders(personMap, items, n - 1)
    ELSE WithRole(WithFounders(personMap, items, n - 1), TrimmedName(items[n]),
                  "Founder", founderType(items[n]))

\* the items of responses.find(...) when its value is an array, none otherwise
ArrayAnswer(rs, questionId) ==
    IF AnswerTo(rs, questionId).t = "group" THEN AnswerTo(rs, questionId).g ELSE <<>>

\* getAnswer(questionId)?.trim(), the empty string standing for every falsy
\* outcome
TrimmedAnswer(rs, questionId) ==
    IF AnswerTo(rs, questionId).t = "string" THEN trim(AnswerTo(rs, questionId).s)
    ELSE <<>>

\* one of the steps 3 to 6: the officer named by the answer gets the role
WithOfficer(personMap, name, role) ==
    IF name = <<>> THEN personMap ELSE WithRole(personMap, name, role, "undefined")

extractAllPersons(rs) ==
    WithOfficer(
        WithOfficer(
            WithOfficer(
                WithOfficer(
                    WithFounders(
                        WithDirectors(<<>>, ArrayAnswer(rs, "directors"),
                                      Len(ArrayAnswer(rs, "directors"))),
                        ArrayAnswer(rs, "founders"), Len(ArrayAnswer(rs, "founders"))),
                    TrimmedAnswer(rs, "ceoName"), "CEO"),
                TrimmedAnswer(rs, "cfoName"), "CFO"),
            TrimmedAnswer(rs, "csName"), "Corporate Secretary"),
        TrimmedAnswer(rs, "chairmanName"), "Chairman")

(***************************************************************************)
(* Calls extractAllPersons(responses): a directors answer of at most one   *)
(* item, a founders answer of at most MaxPersonItems items and the four    *)
(* officer answers.                                                        *)
(***************************************************************************)
\* most items in the founders answer of a call
MaxPersonItems == 2

\* the items of an answer: a name or none, a type or none
PersonItems(names, types) ==
    { Obj(<<"name", "type">>, <<n, t>>) : n \in names, t \in types }

\* the lists of at most n of these items
RECURSIVE ItemLists(_, _)
ItemLists(items, n) ==
    IF n = 0 THEN {<<>>}
    ELSE ItemLists(items, n - 1)
         \cup { Append(l, it) : l \in { k \in ItemLists(items, n - 1) : Len(k) = n - 1 },
                                it \in items }

\* the answer to a question, for each of the values, and no answer
Answers(questionId, values) ==
    {<<>>} \cup { <<[questionId |-> questionId, value |-> v]>> : v \in values }

\* the names of the calls: two that differ in letter case only, one to trim
\* and none
PersonNames == {VStr(<<"J">>), VStr(<<"j">>), VStr(<<" ", "J", " ">>), VUndef}

FounderTypes == {VUndef, VStr(Chars("corporation")), VStr(Capitalized(Chars("corporation")))}

PersonsResponses ==
    { d \o f \o ceo \o cfo \o cs \o ch :
        d \in Answers("directors",
                      { VGroup(l) : l \in ItemLists(PersonItems(PersonNames, {VUndef}), 1) }),
        f \in Answers("founders",
                      { VGroup(l) : l \in ItemLists(PersonItems(PersonNames, FounderTypes),
                                                    MaxPersonItems) }),
        ceo \in Answers("ceoName", {VStr(<<"J">>)}),
        cfo \in Answers("cfoName", {VStr(<<"j", " ">>)}),
        cs \in Answers("csName", {VStr(<<"K">>)}),
        ch \in Answers("chairmanName", {VStr(<<"J">>), VArr(<<<<"J">>>>)}) }

InitPersons ==
    /\ IdleFurther
    /\ responses = <<>>
    /\ templates = <<>>
    /\ condCall = NoCondCall
    /\ selectCall = IdleSelect
    /\ rulesCall = IdleRules
    /\ formulaCall = IdleFormula
    /\ orderCall = NoCall
    /\ caseCall = NoCall
    /\ transformCall = NoCall
    /\ downloadCall = NoCall
    /\ \E rs \in PersonsResponses :
         personsCall = [called |-> FALSE, responses |-> rs, result |-> <<>>]

\* one call extractAllPersons(responses)
ExtractAllPersons ==
    /\ ~personsCall.called
    /\ personsCall' = [personsCall EXCEPT
                          !.called = TRUE,
                          !.result = extractAllPersons(personsCall.responses)]
    /\ UNCHANGED <<responses, templates, condCall, selectCall, rulesCall, formulaCall,
                   orderCall, caseCall, transformCall, downloadCall,
                   furtherCalls>>

NextPersons == ExtractAllPersons

SpecPersons == InitPersons /\ [][NextPersons]_vars

\* the roles and the question ids of the officer answers
OfficerRoles ==
    { <<"ceoName", "CEO">>, <<"cfoName", "CFO">>, <<"csName", "Corporate Secretary">>,
      <<"chairmanName", "Chairman">> }

\* the roles held under a name in the answers
RolesHeld(rs, name) ==
    { "Director" : i \in { j \in 1..Len(ArrayAnswer(rs, "directors")) :
                             TrimmedName(ArrayAnswer(rs, "directors")[j]) = name } }
    \cup { "Founder" : i \in { j \in 1..Len(ArrayAnswer(rs, "founders")) :
                                 TrimmedName(ArrayAnswer(rs, "founders")[j]) = name } }
    \cup { o[2] : o \in { q \in OfficerRoles : TrimmedAnswer(rs, q[1]) = name } }

\* the names found in the answers, trimmed
NamesFound(rs) ==
    ( { TrimmedName(ArrayAnswer(rs, "directors")[i]) :
          i \in 1..Len(ArrayAnswer(rs, "directors")) }
      \cup { TrimmedName(ArrayAnswer(rs, "founders")[i]) :
               i \in 1..Len(ArrayAnswer(rs, "founders")) }
      \cup { TrimmedAnswer(rs, q[1]) : q \in OfficerRoles } ) \ {<<>>}

\* C18: extractAllPersons returns exactly one person per distinct trimmed
\* name found across the directors, the founders and the officer answers,
\* names compared with their letter case, and the person's roles contain
\* every role held under that name
C18_OnePersonPerName ==
    personsCall.called =>
        /\ \A i, j \in 1..Len(personsCall.result) :
               personsCall.result[i].name = personsCall.result[j].name => i = j
        /\ { personsCall.result[i].name : i \in 1..Len(personsCall.result) }
               = NamesFound(personsCall.responses)
        /\ \A i \in 1..Len(personsCall.result) :
               RolesHeld(personsCall.responses, personsCall.result[i].name)
                   \subseteq { personsCall.result[i].roles[k] :
                                 k \in 1..Len(personsCall.result[i].roles) }

\* a call that found J as a director, as a founder (after trimming) and as
\* CEO and j as a founder: two persons, J with the three roles
C18_Witness ==
    /\ personsCall.called
    /\ Len(personsCall.result) = 2
    /\ personsCall.result[1].name = <<"J">>
    /\ personsCall.result[1].roles = <<"Director", "Founder", "CEO">>
    /\ personsCall.result[2].name = <<"j">>
    /\ personsCall.result[2].roles = <<"Founder">>

(***************************************************************************)
(* The repeatForPersons part of the download handler for one template:     *)
(* the documents generated for the selected persons.  A document is the    *)
(* index and the person it was generated for; failing holds the indices    *)
(* for which generateDocument throws.                                      *)
(***************************************************************************)
\* a document generated without a filter the person must be a founder for
Skips_FounderNotRequired(personTypeFilter, isFounder, isCorporation) ==
    \/ personTypeFilter = "individual" /\ isCorporation
    \/ personTypeFilter = "individual_founder" /\ isCorporation
    \/ personTypeFilter \in {"corporation", "corporation_founder"} /\ ~isCorporation

\* whether the three tests on personTypeFilter skip the person
Skips(personTypeFilter, isFounder, isCorporation) ==
    \/ personTypeFilter = "individual" /\ isCorporation
    \/ personTypeFilter = "individual_founder" /\ (~isFounder \/ isCorporation)
    \/ personTypeFilter \in {"corporation", "corporation_founder"} /\ ~isCorporation

\* person.roles.includes('Founder')
IsFounder(person) == \E k \in 1..Len(person.roles) : person.roles[k] = "Founder"

\* the loop over selectedPersonIndices, indices 1..n done: a document for
\* each index that names a person the filter does not skip and for which
\* generateDocument does not throw
RECURSIVE PersonDocuments(_, _, _, _, _)
PersonDocuments(allPersons, personTypeFilter, selectedPersonIndices, failing, n) ==
    IF n = 0 THEN <<>>
    ELSE IF \/ selectedPersonIndices[n] + 1 > Len(allPersons)
            \/ Skips(personTypeFilter,
                     IsFounder(allPersons[selectedPersonIndices[n] + 1]),
                     allPersons[selectedPersonIndices[n] + 1].type = "corporation")
            \/ selectedPersonIndices[n] \in failing
    THEN PersonDocuments(allPersons, personTypeFilter, selectedPersonIndices, failing, n - 1)
    ELSE Append(PersonDocuments(allPersons, personTypeFilter, selectedPersonIndices,
                                failing, n - 1),
                [personIndex |-> selectedPersonIndices[n],
                 person |-> allPersons[selectedPersonIndices[n] + 1]])

\* the per-person branch is taken for a repeatForPersons template with a
\* selection that is not empty
PerPerson(call) == call.repeatForPersons /\ Len(call.selectedPersonIndices) > 0

PersonTypeFilters ==
    {"undefined", "all", "individual", "individual_founder", "corporation",
     "corporation_founder"}

\* the answers of the calls: one director at most, founders, the CEO
DownloadResponses ==
    { d \o f \o ceo :
        d \in Answers("directors",
                      { VGroup(l) :
                          l \in ItemLists(PersonItems({VStr(<<"J">>), VStr(<<"j">>)},
                                                      {VUndef}), 1) }),
        f \in Answers("founders",
                      { VGroup(l) :
                          l \in ItemLists(PersonItems({VStr(<<"J">>), VStr(<<"j">>), VUndef},
                                                      FounderTypes), MaxPersonItems) }),
        ceo \in Answers("ceoName", {VStr(<<"K">>)}) }

\* the selections of the calls, with the template's repeatForPersons
Selections ==
    { <<TRUE, s>> : s \in {<<>>, <<0>>, <<1, 0>>, <<2>>} } \cup { <<FALSE, <<0>>>> }

InitDownload ==
    /\ IdleFurther
    /\ responses = <<>>
    /\ templates = <<>>
    /\ condCall = NoCondCall
    /\ selectCall = IdleSelect
    /\ rulesCall = IdleRules
    /\ formulaCall = IdleFormula
    /\ orderCall = NoCall
    /\ caseCall = NoCall
    /\ transformCall = NoCall
    /\ personsCall = NoCall
    /\ \E rs \in DownloadResponses, filter \in PersonTypeFilters, sel \in Selections,
          failing \in {{}, {0}} :
         downloadCall = [called |-> FALSE, responses |-> rs,
                         repeatForPersons |-> sel[1], personTypeFilter |-> filter,
                         selectedPersonIndices |-> sel[2], failing |-> failing,
                         generated |-> <<>>, general |-> FALSE]

\* the handler's step 3h for the template: the documents of the persons, or
\* the one ordinary document
GenerateDocuments ==
    /\ ~downloadCall.called
    /\ downloadCall' =
           [downloadCall EXCEPT
               !.called = TRUE,
               !.general = ~PerPerson(downloadCall),
               !.generated =
                   IF PerPerson(downloadCall)
                   THEN PersonDocuments(extractAllPersons(downloadCall.responses),
                                        downloadCall.personTypeFilter,
                                        downloadCall.selectedPersonIndices,
                                        downloadCall.failing,
                                        Len(downloadCall.selectedPersonIndices))
                   ELSE <<>>]
    /\ UNCHANGED <<responses, templates, condCall, selectCall, rulesCall, formulaCall,
                   orderCall, caseCall, transformCall, personsCall,
                   furtherCalls>>

NextDownload == GenerateDocuments

SpecDownload == InitDownload /\ [][NextDownload]_vars

\* a corporation-type founder
CorporationFounder(person) == person.type = "corporation" /\ IsFounder(person)

\* whether a filter admits a person: all (and no filter) admits everyone,
\* individual everyone but corporation-type founders, individual_founder the
\* founders that are not corporation-type, corporation and
\* corporation_founder the corporation-type founders
Admits(personTypeFilter, person) ==
    CASE personTypeFilter \in {"all", "undefined"} -> TRUE
      [] personTypeFilter = "individual" -> ~CorporationFounder(person)
      [] personTypeFilter = "individual_founder" ->
             IsFounder(person) /\ person.type # "corporation"
      [] personTypeFilter \in {"corporation", "corporation_founder"} ->
             CorporationFounder(person)

\* C19: in per-person generation a document is generated for a selected
\* person only if the template's personTypeFilter admits the person, and
\* for every selected person it admits unless generateDocument throws; no
\* document is generated for a person the filter excludes
C19_FilterRespected ==
    downloadCall.called =>
        /\ \A k \in 1..Len(downloadCall.generated) :
               /\ downloadCall.generated[k].person
                      = extractAllPersons(downloadCall.responses)[
                            downloadCall.generated[k].personIndex + 1]
               /\ Admits(downloadCall.personTypeFilter, downloadCall.generated[k].person)
        /\ PerPerson(downloadCall) =>
               \A n \in 1..Len(downloadCall.selectedPersonIndices) :
                   ( /\ downloadCall.selectedPersonIndices[n] + 1
                            <= Len(extractAllPersons(downloadCall.responses))
                     /\ downloadCall.selectedPersonIndices[n] \notin downloadCall.failing
                     /\ Admits(downloadCall.personTypeFilter,
                               extractAllPersons(downloadCall.responses)[
                                   downloadCall.selectedPersonIndices[n] + 1]) )
                   => \E k \in 1..Len(downloadCall.generated) :
                          downloadCall.generated[k].personIndex
                              = downloadCall.selectedPersonIndices[n]

\* a call with the filter individual_founder and two selected persons, a
\* director who is no founder and an individual founder: one document, for
\* the founder
C19_Witness ==
    /\ downloadCall.called
    /\ downloadCall.personTypeFilter = "individual_founder"
    /\ downloadCall.selectedPersonIndices = <<1, 0>>
    /\ Len(extractAllPersons(downloadCall.responses)) >= 2
    /\ ~IsFounder(extractAllPersons(downloadCall.responses)[1])
    /\ Len(downloadCall.generated) = 1
    /\ downloadCall.generated[1].personIndex = 1
    /\ IsFounder(downloadCall.generated[1].person)
    /\ downloadCall.generated[1].person.type = "individual"

(***************************************************************************)
(* Dates.  A Date object is invalid or holds the day it denotes in local   *)
(* time, counted from 1970-01-01; the time of day and the time zone are    *)
(* not modelled.  getFullYear, getMonth, getDate and getDay read that day. *)
(***************************************************************************)
InvalidDate == [valid |-> FALSE, time |-> 0]

DateOfDay(days) == [valid |-> TRUE, time |-> days]

\* the day number of the proleptic Gregorian date year-month-day, month from 1
DaysFromCivil(year, month, day) ==
    LET y == IF month <= 2 THEN year - 1 ELSE year
        era == y \div 400
        yoe == y - era * 400
        doy == (153 * (IF month > 2 THEN month - 3 ELSE month + 9) + 2) \div 5 + day - 1
        doe == yoe * 365 + yoe \div 4 - yoe \div 100 + doy
    IN  era * 146097 + doe - 719468

\* the year, month (from 1) and day of a day number
CivilFromDays(days) ==
    LET z == days + 719468
        era == z \div 146097
        doe == z - era * 146097
        yoe == (doe - doe \div 1460 + doe \div 36524 - doe \div 146096) \div 365
        doy == doe - (365 * yoe + yoe \div 4 - yoe \div 100)
        mp == (5 * doy + 2) \div 153
        month == IF mp < 10 THEN mp + 3 ELSE mp - 9
    IN  [year |-> yoe + era * 400 + (IF month <= 2 THEN 1 ELSE 0),
         month |-> month,
         day |-> doy - (153 * mp + 2) \div 5 + 1]

getFullYear(date) == CivilFromDays(date.time).year

\* Date.prototype.getMonth: the month from 0
getMonth(date) == CivilFromDays(date.time).month - 1

getDate(date) == CivilFromDays(date.time).day

\* Date.prototype.getDay: 0 is Sunday, 6 is Saturday; 1970-01-01 was a Thursday
getDay(date) == (date.time + 4) % 7

MONTH_NAMES_EN ==
    << <<"J", "a", "n", "u", "a", "r", "y">>, <<"F", "e", "b", "r", "u", "a", "r", "y">>,
       <<"M", "a", "r", "c", "h">>, <<"A", "p", "r", "i", "l">>, <<"M", "a", "y">>,
       <<"J", "u", "n", "e">>, <<"J", "u", "l", "y">>, <<"A", "u", "g", "u", "s", "t">>,
       <<"S", "e", "p", "t", "e", "m", "b", "e", "r">>,
       <<"O", "c", "t", "o", "b", "e", "r">>,
       <<"N", "o", "v", "e", "m", "b", "e", "r">>,
       <<"D", "e", "c", "e", "m", "b", "e", "r">> >>

MONTH_NAMES_SHORT == [m \in 1..12 |-> SubSeq(MONTH_NAMES_EN[m], 1, 3)]

\* the position of the first occurrence of sub in s, 0 when there is none
IndexOf(s, sub) ==
    IF includes(s, sub)
    THEN CHOOSE i \in 1..(Len(s) - Len(sub) + 1) :
             /\ SubSeq(s, i, i + Len(sub) - 1) = sub
             /\ \A j \in 1..(i - 1) : SubSeq(s, j, j + Len(sub) - 1) # sub
    ELSE 0

\* String.prototype.replace with a string pattern: the first occurrence only
\* (the replacements of the model hold no "$")
replace(s, pattern, replacement) ==
    IF includes(s, pattern)
    THEN SubSeq(s, 1, IndexOf(s, pattern) - 1) \o replacement
         \o SubSeq(s, IndexOf(s, pattern) + Len(pattern), Len(s))
    ELSE s

\* n.toString().padStart(2, '0')
pad(n) == IF n < 10 THEN <<"0">> \o NatToStr(n) ELSE NatToStr(n)

YYYY == <<"Y", "Y", "Y", "Y">>
MM == <<"M", "M">>
DD == <<"D", "D">>
MMMM == <<"M", "M", "M", "M">>
MMM == <<"M", "M", "M">>

\* the formats with a case of their own in formatDate, but for the one with
\* Korean text
PresetFormats ==
    { YYYY \o <<"-">> \o MM \o <<"-">> \o DD,
      MM \o <<"/">> \o DD \o <<"/">> \o YYYY,
      MMM \o <<" ", "D", ",", " ">> \o YYYY,
      YYYY \o <<".">> \o MM \o <<".">> \o DD,
      DD \o <<"/">> \o MM \o <<"/">> \o YYYY }

\* the result of a format with a case of its own
PresetDate(year, month, day, format) ==
    CASE format = YYYY \o <<"-">> \o MM \o <<"-">> \o DD ->
             NatToStr(year) \o <<"-">> \o pad(month) \o <<"-">> \o pad(day)
      [] format = MM \o <<"/">> \o DD \o <<"/">> \o YYYY ->
             pad(month) \o <<"/">> \o pad(day) \o <<"/">> \o NatToStr(year)
      [] format = MMM \o <<" ", "D", ",", " ">> \o YYYY ->
             MONTH_NAMES_SHORT[month] \o <<" ">> \o NatToStr(day) \o <<",", " ">>
             \o NatToStr(year)
      [] format = YYYY \o <<".">> \o MM \o <<".">> \o DD ->
             NatToStr(year) \o <<".">> \o pad(month) \o <<".">> \o pad(day)
      [] format = DD \o <<"/">> \o MM \o <<"/">> \o YYYY ->
             pad(day) \o <<"/">> \o pad(month) \o <<"/">> \o NatToStr(year)

\* the default case: seven replacements, each of the first occurrence, in
\* the order of the source
CustomDate(year, month, day, format) ==
    replace(replace(replace(replace(replace(replace(replace(format,
        YYYY, NatToStr(year)),
        MM, pad(month)),
        DD, pad(day)),
        MMMM, MONTH_NAMES_EN[month]),
        MMM, MONTH_NAMES_SHORT[month]),
        <<"M">>, NatToStr(month)),
        <<"D">>, NatToStr(day))

\* formatDate on a Date object; the string of an invalid Date is returned
\* for an invalid one
formatDate(date, format) ==
    IF ~date.valid THEN <<"I", "n", "v", "a", "l", "i", "d", " ", "D", "a", "t", "e">>
    ELSE IF format \in PresetFormats
         THEN PresetDate(getFullYear(date), getMonth(date) + 1, getDate(date), format)
         ELSE CustomDate(getFullYear(date), getMonth(date) + 1, getDate(date), format)
\* parseInt(str, 10): white space, an optional sign and the longest run of
\* digits; NaN when there is no digit
parseInt(str) ==
    LET s == IF str = <<>> THEN str
             ELSE LET lead == CHOOSE j \in 0..Len(str) :
                                /\ \A m \in 1..j : str[m] \in WhiteSpace
                                /\ (j = Len(str) \/ str[j + 1] \notin WhiteSpace)
                  IN  SubSeq(str, lead + 1, Len(str))
        signed == s # <<>> /\ s[1] \in {"+", "-"}
        p == IF signed THEN 2 ELSE 1
    IN  IF DigitRun(s, p) = 0 THEN NaN
        ELSE Fin(signed /\ s[1] = "-", DigitsValue(s, p, DigitRun(s, p)), 1)

\* new Date(year, monthIndex, day): months and days outside their range carry
\* over, and a year from 0 to 99 is taken as 1900 + year
MakeDate(year, monthIndex, day) ==
    LET full == IF year \in 0..99 THEN 1900 + year ELSE year
        carried == IF monthIndex >= 0 THEN monthIndex \div 12
                   ELSE 0 - ((11 - monthIndex) \div 12)
    IN  DateOfDay(DaysFromCivil(full + carried, monthIndex - 12 * carried + 1, 1) + day - 1)

\* new Date(str) on a string month/day/year, the form that holds no "-";
\* any other string is an invalid date here
ParsedDate(str) ==
    LET parts == split(str, "/")
    IN  IF /\ Len(parts) = 3
           /\ \A i \in 1..3 : parts[i] # <<>> /\ DigitRun(parts[i], 1) = Len(parts[i])
           /\ DigitsValue(parts[1], 1, Len(parts[1])) \in 1..12
           /\ DigitsValue(parts[2], 1, Len(parts[2])) \in 1..31
        THEN MakeDate(DigitsValue(parts[3], 1, Len(parts[3])),
                      DigitsValue(parts[1], 1, Len(parts[1])) - 1,
                      DigitsValue(parts[2], 1, Len(parts[2])))
        ELSE InvalidDate

\* the year, the month from 0 and the day of month read from the cashin
\* answer: the parts between "-" when it holds one, the parsed Date otherwise
\* (the parts of an invalid Date are NaN)
CashinParts(cashinValue) ==
    IF includes(cashinValue, <<"-">>)
    THEN LET dateParts == split(cashinValue, "-")
             part(i) == IF i <= Len(dateParts) THEN parseInt(dateParts[i]) ELSE NaN
         IN  [cashinYear |-> part(1),
              cashinMonth |-> NumSub(part(2), One),
              dayOfMonth |-> part(3)]
    ELSE IF ParsedDate(cashinValue).valid
         THEN [cashinYear |-> Nat2Num(getFullYear(ParsedDate(cashinValue))),
               cashinMonth |-> Nat2Num(getMonth(ParsedDate(cashinValue))),
               dayOfMonth |-> Nat2Num(getDate(ParsedDate(cashinValue)))]
         ELSE [cashinYear |-> NaN, cashinMonth |-> NaN, dayOfMonth |-> NaN]

\* the loop that steps back over Sunday (0) and Saturday (6)
RECURSIVE LastBusinessDay(_)
LastBusinessDay(lastDayOfMonth) ==
    IF getDay(lastDayOfMonth) = 0 \/ getDay(lastDayOfMonth) = 6
    THEN LastBusinessDay(DateOfDay(lastDayOfMonth.time - 1))
    ELSE lastDayOfMonth

\* the same with the 15th itself counted to the month of the cashin
TargetMonth_FromSixteenth(cashinYear, cashinMonth, dayOfMonth) ==
    LET targetMonth == IF dayOfMonth <= 15 THEN cashinMonth ELSE cashinMonth + 1
    IN  IF targetMonth > 11
        THEN [targetYear |-> cashinYear + 1, targetMonth |-> 0]
        ELSE [targetYear |-> cashinYear, targetMonth |-> targetMonth]

\* the month the signing date falls in: the month of the cashin before the
\* 15th, the month after it otherwise, January of the next year past December
TargetMonth(cashinYear, cashinMonth, dayOfMonth) ==
    LET targetMonth == IF dayOfMonth < 15 THEN cashinMonth ELSE cashinMonth + 1
    IN  IF targetMonth > 11
        THEN [targetYear |-> cashinYear + 1, targetMonth |-> 0]
        ELSE [targetYear |-> cashinYear, targetMonth |-> targetMonth]

\* the Date that SHSIGNDate is formatted from; an invalid Date stands for the
\* branch that sets nothing
SHSIGNDateOf(cashinValue) ==
    LET parts == CashinParts(cashinValue)
    IN  IF isNaN(parts.cashinYear) \/ isNaN(parts.cashinMonth) \/ isNaN(parts.dayOfMonth)
        THEN InvalidDate
        ELSE LET target == TargetMonth(SNum(parts.cashinYear), SNum(parts.cashinMonth),
                                       SNum(parts.dayOfMonth))
             IN  LastBusinessDay(MakeDate(target.targetYear, target.targetMonth + 1, 0))

MMMDYYYY == MMM \o <<" ", "D", ",", " ">> \o YYYY

\* the writes of step 3b that derive the signing date of the shareholders
SHSIGNDateWrites(cashinValue) ==
    IF SHSIGNDateOf(cashinValue).valid
    THEN << Write(<<"S", "H", "S", "I", "G", "N", "D", "a", "t", "e">>,
                  VStr(formatDate(SHSIGNDateOf(cashinValue), MMMDYYYY)), FALSE),
            Write(<<"S", "H", "S", "I", "G", "N", "D", "a", "t", "e", "S", "h", "o", "r", "t">>,
                  VStr(formatDate(SHSIGNDateOf(cashinValue),
                                  MM \o <<"/">> \o DD \o <<"/">> \o YYYY)), FALSE),
            Write(<<"S", "H", "S", "I", "G", "N", "D", "a", "t", "e", "I", "S", "O">>,
                  VStr(formatDate(SHSIGNDateOf(cashinValue),
                                  YYYY \o <<"-">> \o MM \o <<"-">> \o DD)), FALSE) >>
    ELSE <<>>
(***************************************************************************)
(* The calls of formatDate and of the derivation of SHSIGNDate: a day, a   *)
(* format and the form of the cashin answer that names the day.            *)
(***************************************************************************)
\* the first day of the calls, 2025-12-01 (a Monday)
FirstDay == DaysFromCivil(2025, 12, 1)

\* the number of consecutive days the calls range over (to 2028-03-31)
MaxDays == 852

CallDays == FirstDay..(FirstDay + MaxDays - 1)

\* formats without a case of their own in formatDate
CustomFormats ==
    { MMMM \o <<" ", "D", ",", " ">> \o YYYY,
      <<"M", "/", "D", "/">> \o YYYY,
      YYYY }

CallFormats == CustomFormats \cup {MM \o <<"/">> \o DD \o <<"/">> \o YYYY}

\* the value of a date input for a day, year-month-day
ISODate(days) ==
    NatToStr(CivilFromDays(days).year) \o <<"-">> \o pad(CivilFromDays(days).month)
    \o <<"-">> \o pad(CivilFromDays(days).day)

\* the same day written month/day/year
SlashDate(days) ==
    pad(CivilFromDays(days).month) \o <<"/">> \o pad(CivilFromDays(days).day)
    \o <<"/">> \o NatToStr(CivilFromDays(days).year)

InitDate ==
    /\ responses = <<>>
    /\ templates = <<>>
    /\ condCall = NoCondCall
    /\ selectCall = IdleSelect
    /\ rulesCall = IdleRules
    /\ formulaCall = IdleFormula
    /\ orderCall = NoCall
    /\ caseCall = NoCall
    /\ transformCall = NoCall
    /\ personsCall = NoCall
    /\ downloadCall = NoCall
    /\ stepsCall = NoCall
    /\ store = NoCall
    /\ form = NoCall
    /\ \E days \in CallDays, format \in CallFormats, iso \in BOOLEAN :
         dateCall = [called |-> FALSE, derived |-> FALSE,
                     date |-> DateOfDay(days), format |-> format,
                     cashinValue |-> IF iso THEN ISODate(days) ELSE SlashDate(days),
                     result |-> <<>>, variables |-> <<>>]

\* a call formatDate(date, format)
FormatDate ==
    /\ ~dateCall.called
    /\ dateCall' = [dateCall EXCEPT !.called = TRUE,
                                    !.result = formatDate(dateCall.date, dateCall.format)]
    /\ UNCHANGED <<responses, templates, condCall, selectCall, rulesCall, formulaCall,
                   laterCalls, stepsCall, store, form>>

\* the derivation of SHSIGNDate from the cashin answer in step 3b
DeriveSHSIGNDate ==
    /\ ~dateCall.derived
    /\ dateCall' = [dateCall EXCEPT
                       !.derived = TRUE,
                       !.variables = Written(SHSIGNDateWrites(dateCall.cashinValue))]
    /\ UNCHANGED <<responses, templates, condCall, selectCall, rulesCall, formulaCall,
                   laterCalls, stepsCall, store, form>>

NextDate == FormatDate \/ DeriveSHSIGNDate

SpecDate == InitDate /\ [][NextDate]_vars

\* the format with every token replaced by its date component, scanned from
\* the left with the longest token first
RECURSIVE TokensReplaced(_, _, _, _)
TokensReplaced(format, year, month, day) ==
    LET starts(token) == /\ Len(format) >= Len(token)
                         /\ SubSeq(format, 1, Len(token)) = token
        rest(token) == TokensReplaced(SubSeq(format, Len(token) + 1, Len(format)),
                                      year, month, day)
    IN  IF format = <<>> THEN <<>>
        ELSE IF starts(YYYY) THEN NatToStr(year) \o rest(YYYY)
        ELSE IF starts(MMMM) THEN MONTH_NAMES_EN[month] \o rest(MMMM)
        ELSE IF starts(MMM) THEN MONTH_NAMES_SHORT[month] \o rest(MMM)
        ELSE IF starts(MM) THEN pad(month) \o rest(MM)
        ELSE IF starts(<<"M">>) THEN NatToStr(month) \o rest(<<"M">>)
        ELSE IF starts(DD) THEN pad(day) \o rest(DD)
        ELSE IF starts(<<"D">>) THEN NatToStr(day) \o rest(<<"D">>)
        ELSE <<format[1]>> \o rest(<<format[1]>>)

\* C21: for a valid date, formatDate replaces each of the tokens YYYY, MM, DD,
\* MMMM, MMM, D and M of the format by the date component it names, so that
\* "MMMM D, YYYY" gives the full month name, the day and the year, and
\* "MM/DD/YYYY" the padded month and day and the year
C21_TokensReplaced ==
    dateCall.called =>
        dateCall.result = TokensReplaced(dateCall.format, getFullYear(dateCall.date),
                                         getMonth(dateCall.date) + 1,
                                         getDate(dateCall.date))

\* the call of the example: 2026-01-31 under "MMMM D, YYYY" leaves the month
\* name out
C21_FullMonthNameLost ==
    /\ dateCall.called
    /\ dateCall.date = DateOfDay(DaysFromCivil(2026, 1, 31))
    /\ dateCall.format = MMMM \o <<" ", "D", ",", " ">> \o YYYY
    /\ dateCall.result = <<"0", "1", "1", "M", " ", "3", "1", ",", " ", "2", "0", "2", "6">>

\* and the same day under "MM/DD/YYYY" is as stated
C21_PresetAsStated ==
    /\ dateCall.called
    /\ dateCall.date = DateOfDay(DaysFromCivil(2026, 1, 31))
    /\ dateCall.format = MM \o <<"/">> \o DD \o <<"/">> \o YYYY
    /\ dateCall.result = <<"0", "1", "/", "3", "1", "/", "2", "0", "2", "6">>

\* the year and the month (from 1) that the signing date of a cashin day is
\* to fall in
SigningMonth(cashin) ==
    IF cashin.day < 15 THEN [year |-> cashin.year, month |-> cashin.month]
    ELSE IF cashin.month = 12 THEN [year |-> cashin.year + 1, month |-> 1]
    ELSE [year |-> cashin.year, month |-> cashin.month + 1]

Weekday(days) == getDay(DateOfDay(days)) \in 1..5

InMonth(days, target) ==
    /\ CivilFromDays(days).year = target.year
    /\ CivilFromDays(days).month = target.month

DateOfString(str) ==
    LET parts == split(str, "-")
        num(i) == DigitsValue(parts[i], 1, Len(parts[i]))
    IN  IF /\ Len(parts) = 3
           /\ Len(parts[1]) = 4 /\ Len(parts[2]) = 2 /\ Len(parts[3]) = 2
           /\ \A i \in 1..3 : DigitRun(parts[i], 1) = Len(parts[i])
        THEN IF /\ num(2) \in 1..12 /\ num(3) >= 1
                /\ CivilFromDays(DaysFromCivil(num(1), num(2), num(3))).day = num(3)
             THEN DateOfDay(DaysFromCivil(num(1), num(2), num(3)))
             ELSE InvalidDate
        ELSE ParsedDate(str)

\* formatDate on a string: empty for the empty string, the string itself
\* when it is no date
formatDateString(value, format) ==
    IF value = <<>> THEN <<>>
    ELSE IF ~DateOfString(value).valid THEN value
    ELSE formatDate(DateOfString(value), format)

\* the string the cashin answer is read as: itself, the string of the first
\* element of an array, or empty
CashinValue(rawValue) ==
    CASE rawValue.t = "string" -> rawValue.s
      [] rawValue.t = "array" /\ Len(rawValue.a) > 0 -> rawValue.a[1]
      [] rawValue.t = "group" /\ Len(rawValue.g) > 0 -> <<ObjectObject>>
      [] OTHER -> <<>>

\* step 3b: the cashin date in three formats and the signing date
CashinWrites(rs) ==
    IF Truthy(AnswerTo(rs, <<"c", "a", "s", "h", "i", "n">>)) /\ CashinValue(AnswerTo(rs, <<"c", "a", "s", "h", "i", "n">>)) # <<>>
    THEN << Write(<<"c", "a", "s", "h", "i", "n">>,
                  VStr(formatDateString(CashinValue(AnswerTo(rs, <<"c", "a", "s", "h", "i", "n">>)), MMMDYYYY)),
                  FALSE),
            Write(<<"C", "a", "s", "h", "i", "n">>,
                  VStr(formatDateString(CashinValue(AnswerTo(rs, <<"c", "a", "s", "h", "i", "n">>)), MMMDYYYY)),
                  FALSE),
            Write(<<"c", "a", "s", "h", "i", "n", "S", "h", "o", "r", "t">>,
                  VStr(formatDateString(CashinValue(AnswerTo(rs, <<"c", "a", "s", "h", "i", "n">>)),
                                        MM \o <<"/">> \o DD \o <<"/">> \o YYYY)), FALSE),
            Write(<<"c", "a", "s", "h", "i", "n", "I", "S", "O">>,
                  VStr(formatDateString(CashinValue(AnswerTo(rs, <<"c", "a", "s", "h", "i", "n">>)),
                                        YYYY \o <<"-">> \o MM \o <<"-">> \o DD)), FALSE) >>
         \o SHSIGNDateWrites(CashinValue(AnswerTo(rs, <<"c", "a", "s", "h", "i", "n">>)))
    ELSE <<>>

\* typeof value === 'string' ? value.trim() : ''
TrimmedString(value) == IF value.t = "string" THEN trim(value.s) ELSE <<>>

\* hasUSAddressResponse?.value === 'yes'
HasUSAddress(rs) == AnswerTo(rs, <<"h", "a", "s", "U", "S", "A", "d", "d", "r", "e", "s", "s">>) = VStr(<<"y", "e", "s">>)

\* (hasUSAddress && usAddress) ? usAddress : krAddress
CompanyAddress(rs) ==
    IF HasUSAddress(rs) /\ TrimmedString(AnswerTo(rs, <<"u", "s", "A", "d", "d", "r", "e", "s", "s">>)) # <<>>
    THEN TrimmedString(AnswerTo(rs, <<"u", "s", "A", "d", "d", "r", "e", "s", "s">>))
    ELSE TrimmedString(AnswerTo(rs, <<"k", "r", "A", "d", "d", "r", "e", "s", "s">>))

\* step 4: the company address, both addresses and the flag
AddressWrites(rs) ==
    << Write(<<"c", "o", "m", "p", "a", "n", "y", "A", "d", "d", "r", "e", "s", "s">>, VStr(CompanyAddress(rs)), FALSE),
       Write(<<"C", "o", "m", "p", "a", "n", "y", "A", "d", "d", "r", "e", "s", "s">>, VStr(CompanyAddress(rs)), FALSE),
       Write(<<"u", "s", "A", "d", "d", "r", "e", "s", "s">>, VStr(TrimmedString(AnswerTo(rs, <<"u", "s", "A", "d", "d", "r", "e", "s", "s">>))), FALSE),
       Write(<<"U", "S", "A", "d", "d", "r", "e", "s", "s">>, VStr(TrimmedString(AnswerTo(rs, <<"u", "s", "A", "d", "d", "r", "e", "s", "s">>))), FALSE),
       Write(<<"k", "r", "A", "d", "d", "r", "e", "s", "s">>, VStr(TrimmedString(AnswerTo(rs, <<"k", "r", "A", "d", "d", "r", "e", "s", "s">>))), FALSE),
       Write(<<"K", "R", "A", "d", "d", "r", "e", "s", "s">>, VStr(TrimmedString(AnswerTo(rs, <<"k", "r", "A", "d", "d", "r", "e", "s", "s">>))), FALSE),
       Write(<<"h", "a", "s", "U", "S", "A", "d", "d", "r", "e", "s", "s">>, VStr(IF HasUSAddress(rs) THEN <<"t", "r", "u", "e">> ELSE <<>>), FALSE) >>

companyNameFields ==
    { <<"c", "o", "m", "p", "a", "n", "y", "n", "a", "m", "e">>, <<"c", "o", "m", "p", "a", "n", "y", "n", "a", "m", "e", "1">>, <<"c", "o", "m", "p", "a", "n", "y", "n", "a", "m", "e", "2">>, <<"c", "o", "m", "p", "a", "n", "y", "n", "a", "m", "e", "3">>,
      <<"c", "o", "r", "p", "o", "r", "a", "t", "i", "o", "n", "n", "a", "m", "e">>, <<"b", "u", "s", "i", "n", "e", "s", "s", "n", "a", "m", "e">>, <<"e", "n", "t", "i", "t", "y", "n", "a", "m", "e">> }

personNameFields ==
    { <<"c", "e", "o", "n", "a", "m", "e">>, <<"c", "f", "o", "n", "a", "m", "e">>, <<"c", "s", "n", "a", "m", "e">>, <<"a", "g", "e", "n", "t", "n", "a", "m", "e">>, <<"r", "e", "g", "i", "s", "t", "e", "r", "e", "d", "a", "g", "e", "n", "t", "n", "a", "m", "e">>,
      <<"i", "n", "c", "o", "r", "p", "o", "r", "a", "t", "o", "r", "n", "a", "m", "e">> }

\* the value step 4b stores for a string answer
FormattedValue(questionId, value) ==
    IF toLowerCase(questionId) \in companyNameFields THEN capitalize(value)
    ELSE IF toLowerCase(questionId) \in personNameFields THEN toTitleCase(value)
    ELSE value

\* step 4b for one response: nothing for an administrator value (the id
\* starts with "__") and for a repeating group; the value under the id and
\* the capitalized id for a string; the joined elements under the id, the
\* List and Formatted aliases and the capitalized id for an array of strings
AutoWrites(response) ==
    IF StartsWithUnderscores(response.questionId) THEN <<>>
    ELSE IF response.value.t = "group" /\ Len(response.value.g) > 0 THEN <<>>
    ELSE IF response.value.t = "string"
    THEN << Write(response.questionId,
                  VStr(FormattedValue(response.questionId, response.value.s)), FALSE),
            Write(Capitalized(response.questionId),
                  VStr(FormattedValue(response.questionId, response.value.s)), FALSE) >>
    ELSE IF response.value.t \in {"array", "group"}
    THEN << Write(response.questionId, VStr(formatListComma(response.value.a)), FALSE),
            Write(response.questionId \o <<"L", "i", "s", "t">>,
                  VStr(formatListComma(response.value.a)), FALSE),
            Write(response.questionId \o <<"F", "o", "r", "m", "a", "t", "t", "e", "d">>,
                  VStr(formatListAnd(response.value.a)), FALSE),
            Write(Capitalized(response.questionId),
                  VStr(formatListComma(response.value.a)), FALSE) >>
    ELSE <<>>

\* step 4b: the loop over the responses, responses 1..n
RECURSIVE AutoGenerated(_, _)
AutoGenerated(rs, n) ==
    IF n = 0 THEN <<>> ELSE AutoGenerated(rs, n - 1) \o AutoWrites(rs[n])

\* the variable map after steps 3b and 4
AfterAddress(rs) == Written(CashinWrites(rs) \o AddressWrites(rs))

\* the variable map after steps 3b, 4 and 4b
AfterAutoGeneration(rs) ==
    Written(CashinWrites(rs) \o AddressWrites(rs) \o AutoGenerated(rs, Len(rs)))
(***************************************************************************)
(* Step 10c of transformSurveyToVariables: the shares of the option pool.  *)
(***************************************************************************)
\* Math.round of a finite number: the nearest integer, a half rounded up
Round(x) == Floor(NumAdd(x, Half))

Hundred == Nat2Num(100)

\* Number.prototype.toString on an integer
IntegerString(x) == (IF x.neg /\ x.n # 0 THEN <<"-">> ELSE <<>>) \o NatToStr(x.n \div x.d)

\* typeof value === 'string' ? parseFloat(value) : 0
OptionPoolPercent(value) == IF value.t = "string" THEN parseFloat(value.s) ELSE Zero

\* the pool taken as the fraction p of the founders' shares alone
OptionPoolShares_OfFounderShares(optionPoolPercent, totalShare) ==
    Round(NumMul(NumDiv(optionPoolPercent, Hundred), totalShare))

\* Math.round((p * totalShare) / (1 - p)) with p = optionPoolPercent / 100
OptionPoolShares(optionPoolPercent, totalShare) ==
    Round(NumDiv(NumMul(NumDiv(optionPoolPercent, Hundred), totalShare),
                 NumSub(One, NumDiv(optionPoolPercent, Hundred))))

\* step 10c: the pool shares, formatted and raw, and the total of the issued
\* shares, when the answer optionPool is truthy, totalShare is positive and
\* the percentage lies strictly between 0 and 100
OptionPoolWrites(rs, totalShare) ==
    IF /\ Truthy(AnswerTo(rs, <<"o", "p", "t", "i", "o", "n", "P", "o", "o", "l">>))
       /\ NumGt(totalShare, Zero)
       /\ NumGt(OptionPoolPercent(AnswerTo(rs, <<"o", "p", "t", "i", "o", "n", "P", "o", "o", "l">>)), Zero)
       /\ NumLt(OptionPoolPercent(AnswerTo(rs, <<"o", "p", "t", "i", "o", "n", "P", "o", "o", "l">>)), Hundred)
    THEN << Write(<<"o", "p", "t", "i", "o", "n", "P", "o", "o", "l", "S", "h", "a", "r", "e", "s">>,
                  VStr(formatNumberWithComma(
                      OptionPoolShares(OptionPoolPercent(AnswerTo(rs, <<"o", "p", "t", "i", "o", "n", "P", "o", "o", "l">>)),
                                       totalShare))), FALSE),
            Write(<<"O", "p", "t", "i", "o", "n", "P", "o", "o", "l", "S", "h", "a", "r", "e", "s">>,
                  VStr(formatNumberWithComma(
                      OptionPoolShares(OptionPoolPercent(AnswerTo(rs, <<"o", "p", "t", "i", "o", "n", "P", "o", "o", "l">>)),
                                       totalShare))), FALSE),
            Write(<<"o", "p", "t", "i", "o", "n", "P", "o", "o", "l", "S", "h", "a", "r", "e", "s", "R", "a", "w">>,
                  VStr(IntegerString(
                      OptionPoolShares(OptionPoolPercent(AnswerTo(rs, <<"o", "p", "t", "i", "o", "n", "P", "o", "o", "l">>)),
                                       totalShare))), FALSE),
            Write(<<"O", "p", "t", "i", "o", "n", "P", "o", "o", "l", "S", "h", "a", "r", "e", "s", "R", "a", "w">>,
                  VStr(IntegerString(
                      OptionPoolShares(OptionPoolPercent(AnswerTo(rs, <<"o", "p", "t", "i", "o", "n", "P", "o", "o", "l">>)),
                                       totalShare))), FALSE),
            Write(<<"t", "o", "t", "a", "l", "I", "s", "s", "u", "e", "d", "S", "h", "a", "r", "e", "s">>,
                  VStr(formatNumberWithComma(NumAdd(totalShare,
                      OptionPoolShares(OptionPoolPercent(AnswerTo(rs, <<"o", "p", "t", "i", "o", "n", "P", "o", "o", "l">>)),
                                       totalShare)))), FALSE),
            Write(<<"T", "o", "t", "a", "l", "I", "s", "s", "u", "e", "d", "S", "h", "a", "r", "e", "s">>,
                  VStr(formatNumberWithComma(NumAdd(totalShare,
                      OptionPoolShares(OptionPoolPercent(AnswerTo(rs, <<"o", "p", "t", "i", "o", "n", "P", "o", "o", "l">>)),
                                       totalShare)))), FALSE) >>
    ELSE <<>>

\* steps 10b and 10c on the variables step 10 left
WithOptionPool(rs, result) ==
    Assigned(Summed(result), OptionPoolWrites(rs, TotalShare(result, LastSummedFounder)))
(***************************************************************************)
(* Calls of single steps of transformSurveyToVariables: the steps 3b to 4b *)
(* on the answers cashin, hasUSAddress, usAddress, krAddress, ceoName and  *)
(* an array answer, and the steps 10b and 10c on the shares of two         *)
(* founders and the answer optionPool.                                     *)
(***************************************************************************)
\* the responses of the calls of steps 3b to 4b
AutoResponses ==
    { c \o h \o u \o k \o n \o a :
        c \in Answers(<<"c", "a", "s", "h", "i", "n">>, {VStr(<<"2", "0", "2", "6", "-", "0", "1", "-", "3", "1">>), VStr(<<"s", "o", "o", "n">>),
                                 VArr(<<<<"2", "0", "2", "6", "-", "1", "2", "-", "1", "5">>>>)}),
        h \in Answers(<<"h", "a", "s", "U", "S", "A", "d", "d", "r", "e", "s", "s">>, {VStr(<<"y", "e", "s">>), VStr(<<"n", "o">>)}),
        u \in Answers(<<"u", "s", "A", "d", "d", "r", "e", "s", "s">>, {VStr(<<" ", "A", " ">>), VStr(<<"A">>)}),
        k \in Answers(<<"k", "r", "A", "d", "d", "r", "e", "s", "s">>, {VStr(<<"K">>)}),
        n \in Answers(<<"c", "e", "o", "N", "a", "m", "e">>, {VStr(<<"j", " ", "d">>)}),
        a \in Answers(<<"o", "p", "t", "s">>, {VArr(<<<<"x">>, <<"y">>>>)}) }

\* the shares a founder has after step 10: none, whole, fractional, grouped
ShareValues == {VUndef, VStr(<<"3">>), VStr(<<"2", ".", "5">>), VStr(<<"1", ",", "0", "0", "0">>)}

\* the variables of the calls of steps 10b and 10c
PoolVariables ==
    { Written(<<Write(FounderKey(1, "Share"), s1, FALSE),
                Write(FounderKey(2, "Share"), s2, FALSE)>>) :
        s1 \in ShareValues, s2 \in ShareValues }

\* the responses of the calls of steps 10b and 10c
PoolResponses ==
    Answers(<<"o", "p", "t", "i", "o", "n", "P", "o", "o", "l">>, {VStr(<<"2", "0">>), VStr(<<"5", "0">>), VStr(<<"1", "2", ".", "5">>), VStr(<<"0">>), VStr(<<"1", "0", "0">>),
                           VStr(<<"9", "9">>), VStr(<<"-", "5">>), VStr(<<"2", "0", "%">>), VStr(<<"x">>), VStr(<<>>),
                           VArr(<<<<"2", "0">>>>)})

InitSteps ==
    /\ responses = <<>>
    /\ templates = <<>>
    /\ condCall = NoCondCall
    /\ selectCall = IdleSelect
    /\ rulesCall = IdleRules
    /\ formulaCall = IdleFormula
    /\ orderCall = NoCall
    /\ caseCall = NoCall
    /\ transformCall = NoCall
    /\ personsCall = NoCall
    /\ downloadCall = NoCall
    /\ dateCall = NoCall
    /\ store = NoCall
    /\ form = NoCall
    /\ \/ \E rs \in AutoResponses :
            stepsCall = [called |-> FALSE, step |-> "4b", responses |-> rs,
                         variables |-> <<>>, result |-> <<>>]
       \/ \E rs \in PoolResponses, variables \in PoolVariables :
            stepsCall = [called |-> FALSE, step |-> "10c", responses |-> rs,
                         variables |-> variables, result |-> <<>>]

\* steps 3b, 4 and 4b on the responses of the call
AutoGenerate ==
    /\ ~stepsCall.called
    /\ stepsCall.step = "4b"
    /\ stepsCall' = [stepsCall EXCEPT !.called = TRUE,
                                      !.result = AfterAutoGeneration(stepsCall.responses)]
    /\ UNCHANGED <<responses, templates, condCall, selectCall, rulesCall, formulaCall,
                   laterCalls, dateCall, store, form>>

\* steps 10b and 10c on the variables and the responses of the call
OptionPool ==
    /\ ~stepsCall.called
    /\ stepsCall.step = "10c"
    /\ stepsCall' = [stepsCall EXCEPT
                        !.called = TRUE,
                        !.result = WithOptionPool(stepsCall.responses, stepsCall.variables)]
    /\ UNCHANGED <<responses, templates, condCall, selectCall, rulesCall, formulaCall,
                   laterCalls, dateCall, store, form>>

NextSteps == AutoGenerate \/ OptionPool

SpecSteps == InitSteps /\ [][NextSteps]_vars

\* C22: no later step of transformSurveyToVariables changes a value an earlier
\* step set: after the variables are generated from the answers (step 4b),
\* hasUSAddress, usAddress, krAddress and cashin still hold what steps 3b and
\* 4 gave them
C22_EarlierValuesKept ==
    (stepsCall.called /\ stepsCall.step = "4b") =>
        \A i \in 1..Len(AfterAddress(stepsCall.responses)) :
            AfterAddress(stepsCall.responses)[i].key
                \in {<<"h", "a", "s", "U", "S", "A", "d", "d", "r", "e", "s", "s">>, <<"u", "s", "A", "d", "d", "r", "e", "s", "s">>, <<"k", "r", "A", "d", "d", "r", "e", "s", "s">>, <<"c", "a", "s", "h", "i", "n">>}
            => Get(stepsCall.result, AfterAddress(stepsCall.responses)[i].key)
                   = AfterAddress(stepsCall.responses)[i].value

\* the answer "no" to hasUSAddress leaves the flag truthy, an address keeps
\* its blanks and cashin is the answer as typed
C22_FlagOverwritten ==
    /\ stepsCall.called /\ stepsCall.step = "4b"
    /\ AnswerTo(stepsCall.responses, <<"h", "a", "s", "U", "S", "A", "d", "d", "r", "e", "s", "s">>) = VStr(<<"n", "o">>)
    /\ AnswerTo(stepsCall.responses, <<"u", "s", "A", "d", "d", "r", "e", "s", "s">>) = VStr(<<" ", "A", " ">>)
    /\ AnswerTo(stepsCall.responses, <<"c", "a", "s", "h", "i", "n">>) = VStr(<<"2", "0", "2", "6", "-", "0", "1", "-", "3", "1">>)
    /\ Get(AfterAddress(stepsCall.responses), <<"h", "a", "s", "U", "S", "A", "d", "d", "r", "e", "s", "s">>) = VStr(<<>>)
    /\ Get(AfterAddress(stepsCall.responses), <<"c", "a", "s", "h", "i", "n">>) = VStr(<<"J", "a", "n", " ", "3", "1", ",", " ", "2", "0", "2", "6">>)
    /\ Get(stepsCall.result, <<"h", "a", "s", "U", "S", "A", "d", "d", "r", "e", "s", "s">>) = VStr(<<"n", "o">>)
    /\ Get(stepsCall.result, <<"u", "s", "A", "d", "d", "r", "e", "s", "s">>) = VStr(<<" ", "A", " ">>)
    /\ Get(stepsCall.result, <<"c", "a", "s", "h", "i", "n">>) = VStr(<<"2", "0", "2", "6", "-", "0", "1", "-", "3", "1">>)
    /\ Get(stepsCall.result, <<"C", "a", "s", "h", "i", "n">>) = VStr(<<"2", "0", "2", "6", "-", "0", "1", "-", "3", "1">>)
    /\ Get(stepsCall.result, <<"c", "a", "s", "h", "i", "n", "S", "h", "o", "r", "t">>) = VStr(<<"0", "1", "/", "3", "1", "/", "2", "0", "2", "6">>)
    /\ Get(stepsCall.result, <<"S", "H", "S", "I", "G", "N", "D", "a", "t", "e">>) = VStr(<<"F", "e", "b", " ", "2", "7", ",", " ", "2", "0", "2", "6">>)

\* without an answer of the same name the values stay
C22_KeptWithoutAnswer ==
    /\ stepsCall.called /\ stepsCall.step = "4b"
    /\ Len(stepsCall.responses) = 1
    /\ AnswerTo(stepsCall.responses, <<"c", "e", "o", "N", "a", "m", "e">>)
           = VStr(<<"j", " ", "d">>)
    /\ Get(stepsCall.result, <<"h", "a", "s", "U", "S", "A", "d", "d", "r", "e", "s", "s">>)
           = VStr(<<>>)
    /\ Get(stepsCall.result, <<"c", "e", "o", "N", "a", "m", "e">>) = VStr(<<"J", " ", "D">>)
    /\ Get(stepsCall.result, <<"C", "e", "o", "N", "a", "m", "e">>) = VStr(<<"J", " ", "D">>)

\* the number a variable of the result reads as, commas dropped
NumberOf(result, key) == parseFloat(Without(Get(result, key).s, {","}))

\* the percentage of the answer optionPool of the call
PoolPercentOfCall ==
    IF AnswerTo(stepsCall.responses, <<"o", "p", "t", "i", "o", "n", "P", "o", "o", "l">>).t = "string"
    THEN parseFloat(AnswerTo(stepsCall.responses, <<"o", "p", "t", "i", "o", "n", "P", "o", "o", "l">>).s)
    ELSE NaN

\* whether the call has a percentage strictly between 0 and 100 and a
\* positive sum of the founders' shares
PoolDue ==
    /\ NumGt(PoolPercentOfCall, Zero)
    /\ NumLt(PoolPercentOfCall, Hundred)
    /\ NumGt(NumberOf(stepsCall.result, <<"s", "h", "a", "r", "e", "S", "u", "m">>), Zero)

\* the exact solution x = p S / (1 - p) of the call
ExactPool ==
    NumDiv(NumMul(NumDiv(PoolPercentOfCall, Hundred), NumberOf(stepsCall.result, <<"s", "h", "a", "r", "e", "S", "u", "m">>)),
           NumSub(One, NumDiv(PoolPercentOfCall, Hundred)))

HasFieldAliases(result, baseName, fieldCapitalized, count) ==
    /\ HasKey(result, baseName \o fieldCapitalized \o Chars("Formatted"))
    /\ HasKey(result, baseName \o fieldCapitalized \o Chars("List"))
    /\ HasKey(result, baseName \o fieldCapitalized \o Chars("OrList"))
    /\ \A i \in 1..count :
           /\ HasKey(result, SubSeq(baseName, 1, Len(baseName) - 1) \o NatToStr(i)
                             \o fieldCapitalized)
           /\ HasKey(result, Capitalized(SubSeq(baseName, 1, Len(baseName) - 1))
                             \o NatToStr(i) \o fieldCapitalized)
           /\ HasKey(result, baseName \o NatToStr(i) \o fieldCapitalized)

\* C24: for every repeating group the result holds the list aliases and the
\* per-index aliases of each field that is present in any record of the
\* group, a field of the second or a later record only included
C24_AliasesOfEveryField ==
    transformCall.called =>
        \A r \in 1..Len(transformCall.responses) :
            transformCall.responses[r].value.t = "group" =>
                \A n \in 1..Len(transformCall.responses[r].value.g) :
                    \A k \in 1..Len(transformCall.responses[r].value.g[n]) :
                        HasFieldAliases(
                            transformCall.result,
                            transformCall.responses[r].questionId,
                            Capitalized(transformCall.responses[r].value.g[n][k].key),
                            Len(transformCall.responses[r].value.g))

\* two founders, the first with a name only, the second with a name and
\* cash: the name has its aliases, cash has none
C24_LaterFieldLeftOut ==
    /\ transformCall.called
    /\ transformCall.variableMappings = <<>>
    /\ Len(transformCall.responses) = 1
    /\ ItemsOf(transformCall.responses, Chars("founders"))
           = << Obj(<<Chars("name")>>, <<VStr(<<"a", " ", "b">>)>>),
                Obj(<<Chars("name"), Chars("cash")>>, <<VStr(<<"c">>), VStr(<<"5">>)>>) >>
    /\ Get(transformCall.result, <<"f", "o", "u", "n", "d", "e", "r", "s", "N", "a", "m", "e", "F", "o", "r", "m", "a", "t", "t", "e", "d">>) = VStr(<<"A", " ", "B", " ", "a", "n", "d", " ", "C">>)
    /\ Get(transformCall.result, <<"F", "o", "u", "n", "d", "e", "r", "2", "N", "a", "m", "e">>) = VStr(<<"C">>)
    /\ ~HasKey(transformCall.result, <<"f", "o", "u", "n", "d", "e", "r", "s", "C", "a", "s", "h", "F", "o", "r", "m", "a", "t", "t", "e", "d">>)
    /\ ~HasKey(transformCall.result, <<"f", "o", "u", "n", "d", "e", "r", "s", "C", "a", "s", "h", "L", "i", "s", "t">>)
    /\ ~HasKey(transformCall.result, <<"f", "o", "u", "n", "d", "e", "r", "2", "C", "a", "s", "h">>)
    /\ ~HasKey(transformCall.result, <<"F", "o", "u", "n", "d", "e", "r", "2", "C", "a", "s", "h">>)
    /\ ~HasKey(transformCall.result, <<"f", "o", "u", "n", "d", "e", "r", "s", "2", "C", "a", "s", "h">>)

\* two founders with a name and cash each: every alias is there
C24_EveryAliasOfAlikeRecords ==
    /\ transformCall.called
    /\ Len(ItemsOf(transformCall.responses, Chars("founders"))) = 2
    /\ \A n \in 1..2 :
           HasKey(ItemsOf(transformCall.responses, Chars("founders"))[n], Chars("cash"))
    /\ HasFieldAliases(transformCall.result, Chars("founders"), <<"C", "a", "s", "h">>, 2)
    /\ HasFieldAliases(transformCall.result, Chars("founders"), <<"N", "a", "m", "e">>, 2)
    /\ Get(transformCall.result, <<"F", "o", "u", "n", "d", "e", "r", "2", "C", "a", "s", "h">>) = VStr(<<"$", "5">>)

(***************************************************************************)
(* Claim about the share field of the items of the founders array.         *)
(***************************************************************************)
\* the founders array of the result, empty when there is none
FoundersArray(result) ==
    IF Get(result, Chars("founders")).t = "group" THEN Get(result, Chars("founders")).g
    ELSE <<>>

\* C30: whenever a fair market value is known, the share field of item i of
\* the founders array of the result equals the variable Founder{i}Share, for
\* i from 1 to 9
C30_LoopShareIsFlatShare ==
    (transformCall.called /\ Truthy(Get(transformCall.result, Chars("FMV")))) =>
        \A i \in 1..LastSummedFounder :
            i <= Len(FoundersArray(transformCall.result)) =>
                Get(FoundersArray(transformCall.result)[i], <<"s", "h", "a", "r", "e">>)
                    = Get(transformCall.result, FounderKey(i, "Share"))

\* one founder with cash 5 at a fair market value of 2: the item holds 2
\* shares, the variable 2.5
C30_SharesDiffer ==
    /\ transformCall.called
    /\ transformCall.variableMappings = <<>>
    /\ Get(transformCall.result, Chars("FMV")) = VStr(<<"$", "2">>)
    /\ Len(FoundersArray(transformCall.result)) = 1
    /\ Get(FoundersArray(transformCall.result)[1], Chars("cash")) = VStr(<<"$", "5">>)
    /\ Get(FoundersArray(transformCall.result)[1], <<"s", "h", "a", "r", "e">>) = VStr(<<"2">>)
    /\ Get(transformCall.result, FounderKey(1, "Share")) = VStr(<<"2", ".", "5">>)

\* a founder without cash: the item holds 0 shares, the variable is not set
C30_ZeroAgainstUnset ==
    /\ transformCall.called
    /\ transformCall.variableMappings = <<>>
    /\ Get(transformCall.result, Chars("FMV")) = VStr(<<"$", "2">>)
    /\ Len(FoundersArray(transformCall.result)) = 1
    /\ ~HasKey(FoundersArray(transformCall.result)[1], Chars("cash"))
    /\ Get(FoundersArray(transformCall.result)[1], <<"s", "h", "a", "r", "e">>) = VStr(<<"0">>)
    /\ ~HasKey(transformCall.result, FounderKey(1, "Share"))

\* a share set by a manual mapping: the variable holds it, the item the
\* computed one
C30_ManualAgainstComputed ==
    /\ transformCall.called
    /\ Len(transformCall.variableMappings) = 1
    /\ transformCall.variableMappings[1].variableName = FounderKey(1, "Share")
    /\ Get(transformCall.result, Chars("FMV")) = VStr(<<"$", "2">>)
    /\ Len(FoundersArray(transformCall.result)) = 1
    /\ Get(FoundersArray(transformCall.result)[1], Chars("cash")) = VStr(<<"$", "1", ",", "0", "0", "0">>)
    /\ Get(FoundersArray(transformCall.result)[1], <<"s", "h", "a", "r", "e">>) = VStr(<<"5", "0", "0">>)
    /\ Get(transformCall.result, FounderKey(1, "Share")) = VStr(<<"7">>)

\* cash that is a multiple of the fair market value, no mapping: both agree
C30_SharesAgree ==
    /\ transformCall.called
    /\ transformCall.variableMappings = <<>>
    /\ Get(transformCall.result, Chars("FMV")) = VStr(<<"$", "2">>)
    /\ Len(FoundersArray(transformCall.result)) = 1
    /\ Get(FoundersArray(transformCall.result)[1], Chars("cash")) = VStr(<<"$", "1", ",", "0", "0", "0">>)
    /\ Get(FoundersArray(transformCall.result)[1], <<"s", "h", "a", "r", "e">>) = VStr(<<"5", "0", "0">>)
    /\ Get(transformCall.result, FounderKey(1, "Share")) = VStr(<<"5", "0", "0">>)

(***************************************************************************)
(* Claim about the operators == and != of evaluateCondition (SpecCond).    *)
(***************************************************************************)
\* the result of the condition of the call under another operator, on the
\* same responses and the same table
ResultUnder(operator) ==
    evaluateCondition([condCall.condition EXCEPT !.operator = operator], responses,
                      TableArg(condCall.hasTable, responses))

\* C28: on the same condition, responses and computed table, evaluateCondition
\* with operator != returns the negation of what it returns with operator ==,
\* also when the actual value is missing and when the referenced answer of a
\* question operand is missing
C28_UnequalNegatesEqual ==
    (condCall.called /\ condCall.condition.operator \in {"==", "!="}) =>
        /\ ResultUnder("!=") = ~ResultUnder("==")
        /\ condCall.result = ResultUnder(condCall.condition.operator)

\* a call with != whose actual value is there and whose referenced answer is
\* missing: true, and false under ==
C28_Witness ==
    /\ condCall.called
    /\ condCall.condition.operator = "!="
    /\ condCall.condition.valueType = "question"
    /\ ActualValue(condCall.condition, responses,
                   TableArg(condCall.hasTable, responses)).t = "string"
    /\ FindValue(responses, condCall.condition.valueQuestionId).t = "undefined"
    /\ condCall.result
    /\ ~ResultUnder("==")

\* a call with != on two spellings of one number: false, and true under ==
C28_WitnessNumbers ==
    /\ condCall.called
    /\ condCall.condition.operator = "!="
    /\ condCall.condition.valueType = "literal"
    /\ condCall.condition.value = <<"5", ".", "0">>
    /\ ActualValue(condCall.condition, responses,
                   TableArg(condCall.hasTable, responses)) = VStr(<<"5">>)
    /\ ~condCall.result
    /\ ResultUnder("==")

(***************************************************************************)
(* Claim about the buckets of selectTemplates as a whole (SpecSelect).     *)
(***************************************************************************)
\* the three buckets of the call, one after the other
AllBuckets == selectCall.required \o selectCall.suggested \o selectCall.optional

\* how often a template occurs in a list
Occurrences(list, template) == Cardinality({k \in 1..Len(list) : list[k] = template})

\* C29: the buckets of selectTemplates partition the active templates: every
\* template with isActive occurs in exactly one of required, suggested and
\* optional, exactly once, and every element of a bucket is an active
\* template of the input
C29_BucketsPartitionActive ==
    selectCall.called =>
        /\ \A i \in 1..Len(templates) :
               templates[i].isActive =>
                   /\ Occurrences(AllBuckets, templates[i])
                          = Occurrences(templates, templates[i])
                   /\ Cardinality({b \in {"required", "suggested", "optional"} :
                                      Occurrences(selectCall[b], templates[i]) > 0}) = 1
        /\ \A k \in 1..Len(AllBuckets) :
               \E i \in 1..Len(templates) :
                   templates[i] = AllBuckets[k] /\ templates[i].isActive

\* a call with two active templates that land in different buckets, one of
\* them suggested
C29_Witness ==
    /\ selectCall.called
    /\ \A i \in 1..Len(templates) : templates[i].isActive
    /\ Len(templates) = 2
    /\ Len(selectCall.suggested) = 1
    /\ Len(selectCall.required) + Len(selectCall.optional) = 1
    /\ selectCall.suggested[1] = templates[1]

\* a call with an inactive template: it is in no bucket
C29_InactiveLeftOut ==
    /\ selectCall.called
    /\ ~templates[1].isActive
    /\ templates[2].isActive
    /\ AllBuckets = <<templates[2]>>

(***************************************************************************)
(* The survey handler of the server (POST /api/surveys) on one survey id.  *)
(* Every request runs in an invocation of its own with its own connection  *)
(* to the store; between two awaits of one request the steps of the others *)
(* may take place, so hGet and hSet of a request are separate steps.  The  *)
(* payload of a request (customerInfo, answers, totalPrice) is one number, *)
(* the place of the request in the order of arrival.                       *)
(***************************************************************************)
\* most requests for the survey id
MaxRequests == 3

\* no survey stored under the id
NoSurvey == [exists |-> FALSE, status |-> "", answers |-> 0, completedSectionIndex |-> FALSE]

\* the survey an earlier autosave stored: in progress, answers 0
StoredSurvey ==
    [exists |-> TRUE, status |-> "in_progress", answers |-> 0,
     completedSectionIndex |-> TRUE]

InitStore ==
    /\ responses = <<>>
    /\ templates = <<>>
    /\ condCall = NoCondCall
    /\ selectCall = IdleSelect
    /\ rulesCall = IdleRules
    /\ formulaCall = IdleFormula
    /\ LaterIdle
    /\ dateCall = NoCall
    /\ stepsCall = NoCall
    /\ form = NoCall
    /\ \E survey \in {NoSurvey, StoredSurvey} :
         store = [survey |-> survey, requests |-> <<>>, created |-> 0]

storeFrame ==
    <<responses, templates, condCall, selectCall, rulesCall, formulaCall, laterCalls,
      dateCall, stepsCall, form>>

\* the request with a new position in its handler and the survey it has read
Moved(i, pc, existingSurvey) ==
    [store.requests EXCEPT ![i] = [@ EXCEPT !.pc = pc, !.existingSurvey = existingSurvey]]

\* a request arrives: an autosave or a submit with the id in its body
Post ==
    /\ Len(store.requests) < MaxRequests
    /\ \E action \in {"autosave", "submit"} :
         store' = [store EXCEPT
                      !.requests = Append(@, [action |-> action,
                                              answers |-> Len(store.requests) + 1,
                                              pc |-> "hGet",
                                              existingSurvey |-> NoSurvey])]
    /\ UNCHANGED storeFrame

\* autosave, hGet: an answer 400 for a stored survey that is not in progress;
\* otherwise on to the hSet of the update or of a new survey
AutosaveGet ==
    /\ \E i \in 1..Len(store.requests) :
         /\ store.requests[i].action = "autosave"
         /\ store.requests[i].pc = "hGet"
         /\ store' = [store EXCEPT
                         !.requests =
                             IF ~store.survey.exists THEN Moved(i, "create", NoSurvey)
                             ELSE IF store.survey.status # "in_progress"
                             THEN Moved(i, "done", NoSurvey)
                             ELSE Moved(i, "hSet", store.survey)]
    /\ UNCHANGED storeFrame

\* autosave, hSet of updatedSurvey: the survey read, with the payload and the
\* section index of the request
AutosaveSet ==
    /\ \E i \in 1..Len(store.requests) :
         /\ store.requests[i].action = "autosave"
         /\ store.requests[i].pc = "hSet"
         /\ store' = [store EXCEPT
                         !.survey = [store.requests[i].existingSurvey EXCEPT
                                        !.answers = store.requests[i].answers,
                                        !.completedSectionIndex = TRUE],
                         !.requests = Moved(i, "done", store.requests[i].existingSurvey)]
    /\ UNCHANGED storeFrame

\* autosave, hSet of a new survey under the id of the request, in progress
\* (the notification mail that follows does not touch the store)
AutosaveCreate ==
    /\ \E i \in 1..Len(store.requests) :
         /\ store.requests[i].action = "autosave"
         /\ store.requests[i].pc = "create"
         /\ store' = [store EXCEPT
                         !.survey = [exists |-> TRUE, status |-> "in_progress",
                                     answers |-> store.requests[i].answers,
                                     completedSectionIndex |-> TRUE],
                         !.requests = Moved(i, "done", NoSurvey)]
    /\ UNCHANGED storeFrame

\* submit, hGet: on to the hSet of the update for a stored survey in
\* progress, to a new survey otherwise
SubmitGet ==
    /\ \E i \in 1..Len(store.requests) :
         /\ store.requests[i].action = "submit"
         /\ store.requests[i].pc = "hGet"
         /\ store' = [store EXCEPT
                         !.requests =
                             IF store.survey.exists /\ store.survey.status = "in_progress"
                             THEN Moved(i, "hSet", store.survey)
                             ELSE Moved(i, "create", NoSurvey)]
    /\ UNCHANGED storeFrame

\* submit, hSet of updatedSurvey: the survey read, with the payload of the
\* request, status pending and no section index
SubmitSet ==
    /\ \E i \in 1..Len(store.requests) :
         /\ store.requests[i].action = "submit"
         /\ store.requests[i].pc = "hSet"
         /\ store' = [store EXCEPT
                         !.survey = [store.requests[i].existingSurvey EXCEPT
                                        !.answers = store.requests[i].answers,
                                        !.status = "pending",
                                        !.completedSectionIndex = FALSE],
                         !.requests = Moved(i, "done", store.requests[i].existingSurvey)]
    /\ UNCHANGED storeFrame

\* submit, hSet of a new pending survey under a new id: the survey under the
\* id of the request stays as it is
SubmitCreate ==
    /\ \E i \in 1..Len(store.requests) :
         /\ store.requests[i].action = "submit"
         /\ store.requests[i].pc = "create"
         /\ store' = [store EXCEPT !.created = @ + 1,
                                   !.requests = Moved(i, "done", NoSurvey)]
    /\ UNCHANGED storeFrame

NextStore ==
    \/ Post
    \/ AutosaveGet
    \/ AutosaveSet
    \/ AutosaveCreate
    \/ SubmitGet
    \/ SubmitSet
    \/ SubmitCreate

SpecStore == InitStore /\ [][NextStore]_vars

\* whether the step is the hSet of the update of a submit request
SubmitStores ==
    \E i \in 1..Len(store.requests) :
        /\ store.requests[i].action = "submit"
        /\ store.requests[i].pc = "hSet"
        /\ store'.requests[i].pc = "done"

\* C26: under any interleaving of autosave and submit requests for one survey
\* id, once the survey is stored with status pending no autosave request
\* changes it: the status does not return to in_progress and the answers are
\* not replaced by those of an autosave
C26_PendingSurveyKept ==
    [][ (store.survey.exists /\ store.survey.status = "pending")
            => (store'.survey = store.survey \/ SubmitStores) ]_vars

\* a submit has stored the survey as pending and the survey is in progress
\* again, with the answers of an autosave that read it before the submit
C26_SubmitUndone ==
    /\ store.survey.exists
    /\ store.survey.status = "in_progress"
    /\ \E i, j \in 1..Len(store.requests) :
         /\ store.requests[i].action = "submit"
         /\ store.requests[i].pc = "done"
         /\ store.requests[i].existingSurvey.exists
         /\ store.requests[j].action = "autosave"
         /\ store.requests[j].pc = "done"
         /\ store.requests[j].existingSurvey.exists
         /\ store.survey.answers = store.requests[j].answers

\* an autosave that reads the survey after the submit is refused and the
\* survey stays pending with the submitted answers
C26_LateAutosaveRefused ==
    /\ store.survey.exists
    /\ store.survey.status = "pending"
    /\ Len(store.requests) = 2
    /\ store.requests[1].action = "submit"
    /\ store.requests[1].pc = "done"
    /\ store.requests[2].action = "autosave"
    /\ store.requests[2].pc = "done"
    /\ ~store.requests[2].existingSurvey.exists
    /\ store.survey.answers = 1

(***************************************************************************)
(* The autosave queue of SurveyForm.  The answers of the form are a        *)
(* version number that every edit raises; they hold the email, without     *)
(* which performAutoSave returns at once.  The requests sent by doSave are *)
(* kept in order, and so is the item given last to performAutoSave.        *)
(***************************************************************************)
\* the number of sections of the questionnaire
MaxSections == 3

\* most edits of the answers
MaxEdits == 2

\* most calls of performAutoSave
MaxSaves == 4

\* reduce((latest, current) => current.sectionIndex > latest.sectionIndex ?
\* current : latest): the first of the items with the highest section index
LatestItem(saveQueue) ==
    saveQueue[CHOOSE i \in 1..Len(saveQueue) :
                  /\ \A j \in 1..Len(saveQueue) :
                         saveQueue[j].sectionIndex <= saveQueue[i].sectionIndex
                  /\ \A j \in 1..(i - 1) :
                         saveQueue[j].sectionIndex < saveQueue[i].sectionIndex]

\* processQueue on the form f: nothing while a save is in flight or the queue
\* is empty; otherwise the latest item is sent and the queue emptied
processQueue(f) ==
    IF f.isAutoSaving \/ f.saveQueue = <<>> THEN f
    ELSE [f EXCEPT !.isAutoSaving = TRUE,
                   !.requests = Append(@, LatestItem(f.saveQueue)),
                   !.saveQueue = <<>>]

\* performAutoSave(completedSectionIndex, currentAnswers) on the form f
performAutoSave(f, completedSectionIndex, currentAnswers) ==
    processQueue([f EXCEPT
                     !.saveQueue = Append(@, [sectionIndex |-> completedSectionIndex,
                                              answers |-> currentAnswers]),
                     !.enqueued = [sectionIndex |-> completedSectionIndex,
                                   answers |-> currentAnswers],
                     !.saves = @ + 1])

InitForm ==
    /\ responses = <<>>
    /\ templates = <<>>
    /\ condCall = NoCondCall
    /\ selectCall = IdleSelect
    /\ rulesCall = IdleRules
    /\ formulaCall = IdleFormula
    /\ LaterIdle
    /\ dateCall = NoCall
    /\ stepsCall = NoCall
    /\ store = NoCall
    /\ form = [currentSectionIndex |-> 0, answers |-> 0, saveQueue |-> <<>>,
               isAutoSaving |-> FALSE, surveyId |-> FALSE, requests |-> <<>>,
               enqueued |-> [sectionIndex |-> 0, answers |-> 0], saves |-> 0]

formFrame ==
    <<responses, templates, condCall, selectCall, rulesCall, formulaCall, laterCalls,
      dateCall, stepsCall, store>>

\* the user changes an answer
Edit ==
    /\ form.answers < MaxEdits
    /\ form' = [form EXCEPT !.answers = @ + 1]
    /\ UNCHANGED formFrame

\* proceedToNextSection, reached from the button of every section but the
\* last: the section is saved and the next one shown
ProceedToNextSection ==
    /\ form.currentSectionIndex < MaxSections - 1
    /\ form.saves < MaxSaves
    /\ form' = [performAutoSave(form, form.currentSectionIndex, form.answers)
                    EXCEPT !.currentSectionIndex = @ + 1]
    /\ UNCHANGED formFrame

\* handlePrev
HandlePrev ==
    /\ form.currentSectionIndex > 0
    /\ form' = [form EXCEPT !.currentSectionIndex = @ - 1]
    /\ UNCHANGED formFrame

\* the save in flight ends, with an answer that names the survey or with an
\* error: the rest of processQueue, its finally included
SaveEnds ==
    /\ form.isAutoSaving
    /\ \E ok \in BOOLEAN :
         form' = processQueue([form EXCEPT !.isAutoSaving = FALSE,
                                           !.surveyId = @ \/ ok])
    /\ UNCHANGED formFrame

NextForm == Edit \/ ProceedToNextSection \/ HandlePrev \/ SaveEnds

SpecForm == InitForm /\ [][NextForm]_vars

\* no save in flight and nothing queued
Drained == ~form.isAutoSaving /\ form.saveQueue = <<>>

\* C27: after any calls of performAutoSave, also during a save in flight and
\* after a return to an earlier section, once the queue has drained the last
\* request sent carries the answers of the item enqueued last
C27_LastSnapshotSent ==
    (Drained /\ form.saves > 0) =>
        form.requests[Len(form.requests)].answers = form.enqueued.answers

\* the queue has drained and the last request carries older answers than
\* the item enqueued last
C27_NewerSnapshotDiscarded ==
    /\ Drained
    /\ form.saves > 0
    /\ form.requests[Len(form.requests)].answers < form.enqueued.answers
    /\ form.requests[Len(form.requests)].sectionIndex >= form.enqueued.sectionIndex

\* saves of rising sections during a save in flight: the last one is sent
C27_RisingSectionsSent ==
    /\ Drained
    /\ form.saves = 2
    /\ form.enqueued = [sectionIndex |-> 1, answers |-> 1]
    /\ form.requests = <<[sectionIndex |-> 0, answers |-> 0],
                         [sectionIndex |-> 1, answers |-> 1]>>

====
